---- MODULE Spec2Model ----
(***************************************************************************)
(* The webhook registry of src/src/store.js: the file-backed store         *)
(* (FileWebhookStore: an in-memory registry mirrored to one JSON document   *)
(* by a coalescing flush) and the document-store-backed store               *)
(* (MongoWebhookStore: single atomic operations on a collection).           *)
(***************************************************************************)
EXTENDS Integers, Sequences, FiniteSets, TLC

(* ------------------------------ bounds --------------------------------- *)

\* logLimit is configuration (WEBHOOK_LOG_LIMIT); the model runs it over 0..MaxLogLimit.
MaxLogLimit == 1
\* The clock (Date.now) runs over 0..MaxTime.
MaxTime == 1
\* At most MaxVer mutations of the registry are applied in one behaviour.
MaxVer == 3
\* At most MaxCalls store calls are pending (awaited by their callers) at a time.
MaxCalls == 2
\* A slug arrives in a request as a text of at most MaxRaw characters.
MaxRaw == 4

Slugs == {"a", "b"}
Requests == {"r1", "r2"}
OtherMethods == {"GET", "PUT"}
Routes == {"/:slug", "/hooks/:slug"}
Descriptions == {""}
Ids == {"h1"}
Bodies == {"p"}
LogLimits == 0..MaxLogLimit

(* ------------------------------ helpers -------------------------------- *)

Take(seq, n) == IF n >= Len(seq) THEN seq ELSE SubSeq(seq, 1, n)

RemoveAt(seq, i) == SubSeq(seq, 1, i - 1) \o SubSeq(seq, i + 1, Len(seq))

Reverse(seq) == [i \in 1..Len(seq) |-> seq[Len(seq) + 1 - i]]

\* A JS value that is null or a time: <<>> is null, <<t>> is the time t.
NoTime == <<>>

\* The object {} keyed by slug.
EmptyHooks == [s \in {} |-> 0]

Put(hooks, slug, hook) ==
    [s \in (DOMAIN hooks) \cup {slug} |-> IF s = slug THEN hook ELSE hooks[s]]

\* A delete that removes nothing.
DropNothing(hooks, slug) == hooks

Drop(hooks, slug) == [s \in (DOMAIN hooks) \ {slug} |-> hooks[s]]

(* ------------------------------- state --------------------------------- *)

VARIABLES
    engine,        \* "file" | "mongo": the store createWebhookStore returned
    logLimit,      \* this.logLimit
    phase,         \* "new" (constructed) | "init" (init() awaiting) | "ready" | "failed"
    now,           \* the last reading of the clock
    state,         \* FileWebhookStore: this.state.hooks, slug -> hook
    disk,          \* FileWebhookStore: the backing file
    writePromise,  \* FileWebhookStore: this.writePromise, "null" | "pending"
    pendingFlush,  \* FileWebhookStore: this.pendingFlush
    persists,      \* FileWebhookStore: the persist() calls in flight
    collection,    \* MongoWebhookStore: the documents of the collection, in insertion order
    calls,         \* the store calls whose promise is pending
    ret,           \* what the last step returned to callers (a sequence of results)
    ver,           \* history: the number of mutations applied to the registry
    delivered,     \* history: per slug, the entries recorded since its creation or reset
    touched,       \* history: the slugs created, hit or reset since the store was constructed
    maxLimit,      \* history: the largest logLimit the registry's data was written under
    held,          \* the value a caller of the store keeps of a call: <<>> or <<handle>>
    reqs,          \* the requests the delivery handler (createDynamicHandler) is serving
    cfg,           \* the options bootstrap hands to createWebhookStore
    client,        \* MongoWebhookStore: this.client, this.collection and the connections open
    both,          \* a file store and a Mongo store given the same calls, and what each returned
    slugIn,        \* a slug as a request carries it, and what the router made of it
    bridge         \* the serverless bridge: cachedApp, the stores created, each request's position

fileVars == <<state, disk, writePromise, pendingFlush, persists>>
histVars == <<ver, delivered, touched, maxLimit>>
sideVars == <<cfg, both, slugIn, bridge>>
clientVars == <<held, reqs, client, sideVars>>
vars == <<engine, logLimit, phase, now, state, disk, writePromise, pendingFlush,
          persists, collection, calls, ret, ver, delivered, touched, maxLimit, held, reqs,
          cfg, client, both, slugIn, bridge>>

(* ------------------------------ the clock ------------------------------- *)

\* What a reading of the clock can return: the clock never runs backwards.
Clock == now..MaxTime

(* ------------------------------ records -------------------------------- *)

\* createHook's hook literal.
NewHook(id, slug, description, t) ==
    [id |-> id, slug |-> slug, description |-> description, metadata |-> "{}",
     createdAt |-> t, lastHit |-> NoTime, hits |-> 0, logs |-> <<>>]

\* The entry the delivery handler builds: id and timestamp are both read from the clock.
MakeEntry(t, body) == [id |-> t, timestamp |-> t, body |-> body]

\* The backing file: absent ("absent"), empty ("empty"), cut short ("partial"), a JSON
\* value without a hooks mapping ("nohooks"), or a JSON document {hooks: ...} ("doc"). ver is history: the registry version the document was
\* serialised from.
NoDocFile(kind) == [kind |-> kind, hooks |-> EmptyHooks, ver |-> 0]
DocFile(hooks, v) == [kind |-> "doc", hooks |-> hooks, ver |-> v]

\* A persist() call that has just started: it awaits fs.mkdir. tracked: it was started
\* by schedulePersist (it settles writePromise); since: the registry version at its start.
NewPersist(tracked, v) ==
    [phase |-> "mkdir", tracked |-> tracked, hooks |-> EmptyHooks, ver |-> 0, since |-> v]

\* A result handed to a caller. status: 200 returned, 404 / 409 thrown with that
\* statusCode. value: deleteHook's boolean. ver (history): the version its mutation made.
Result(op, slug, status, value, v) ==
    [op |-> op, slug |-> slug, status |-> status, value |-> value, ver |-> v]

\* A POST the delivery handler has not received yet. pc is where its handler stands,
\* status the response it ended with (0: none yet), t the clock reading it holds for the
\* record it inserts or the entry it records, ver the version its pending createHook made.
\* method and route are recorded for the requests that are not POSTs ("" otherwise).
NoRequest(r) ==
    [pc |-> "idle", slug |-> "", status |-> 0, t |-> 0, ver |-> 0, method |-> "", route |-> ""]

\* A file store (file: its state.hooks) and a Mongo store (mongo: its collection) that
\* were given the same calls; out: what the last call returned on each; n: the
\* mutations applied.
Pair(file, mongo, out, n) == [file |-> file, mongo |-> mongo, out |-> out, n |-> n]

\* The options of createWebhookStore that select the engine. mongoUri: "unset" (no
\* MONGODB_URI), "empty" (the empty string) or "uri"; filePath: "unset" or "path".
Config(mongoUri, filePath) == [mongoUri |-> mongoUri, filePath |-> filePath]

\* The serverless bridge of one process. cachedApp: 0 while the module variable is
\* undefined, else the number of the application it holds; stores: the engines of the
\* store instances createApp has constructed, in order of construction; pc: where each
\* request is in handler ("idle" | "creating" | "served" | "failed"); app: the
\* application a request is creating or was served by, 0 for none.
Bridge(cachedApp, stores, pc, app) ==
    [cachedApp |-> cachedApp, stores |-> stores, pc |-> pc, app |-> app]

\* The connection fields of a MongoWebhookStore. opened: the MongoClient objects it has
\* created; conns: the connections open; coll: this.collection is set; index: the
\* unique index on slug has been created.
Client(opened, conns, coll, index) ==
    [opened |-> opened, conns |-> conns, coll |-> coll, index |-> index]

\* A pending call. File store: a caller awaiting the writePromise schedulePersist returned.
\* Mongo store: a request sent to the database and not yet executed.
Call(op, slug, hook, entry, limit, v) ==
    [op |-> op, slug |-> slug, hook |-> hook, entry |-> entry, limit |-> limit, ver |-> v]

(* --------------------------- FileWebhookStore --------------------------- *)

\* schedulePersist() without its test of writePromise: every call starts a persist().
SchedulePersistNoGuard(wp, pf, ps, v) ==
    [wp |-> "pending", pf |-> pf, ps |-> Append(ps, NewPersist(TRUE, v))]

\* schedulePersist() that returns the running writePromise without setting pendingFlush.
SchedulePersistNoPending(wp, pf, ps, v) ==
    IF wp # "null"
    THEN [wp |-> wp, pf |-> pf, ps |-> ps]
    ELSE [wp |-> "pending", pf |-> pf, ps |-> Append(ps, NewPersist(TRUE, v))]

\* schedulePersist(): the flush fields after the call.
SchedulePersist(wp, pf, ps, v) ==
    IF wp # "null"
    THEN [wp |-> wp, pf |-> TRUE, ps |-> ps]
    ELSE [wp |-> "pending", pf |-> pf, ps |-> Append(ps, NewPersist(TRUE, v))]

\* A .finally handler that clears the flag and starts no further flush.
OnPersistSettledNoRerun(pf, ps, v) == [wp |-> "null", pf |-> FALSE, ps |-> ps]

\* A .finally handler that clears writePromise and leaves the flag as it is.
OnPersistSettledKeepsFlag(pf, ps, v) == [wp |-> "null", pf |-> pf, ps |-> ps]

\* The .finally handler of schedulePersist, run when the tracked persist() settled.
OnPersistSettled(pf, ps, v) ==
    IF pf
    THEN SchedulePersist("null", FALSE, ps, v)
    ELSE [wp |-> "null", pf |-> FALSE, ps |-> ps]

\* recordHit's update without the slice.
FileRecordHitNoSlice(hook, entry, limit) ==
    [hook EXCEPT !.hits = hook.hits + 1,
                 !.lastHit = <<entry.timestamp>>,
                 !.logs = <<entry>> \o hook.logs]

\* recordHit's update with hits set to the number of entries kept.
FileRecordHitCountsLogs(hook, entry, limit) ==
    LET pushed == <<entry>> \o hook.logs
        kept == IF Len(pushed) > limit THEN SubSeq(pushed, 1, limit) ELSE pushed
    IN  [hook EXCEPT !.hits = Len(kept), !.lastHit = <<entry.timestamp>>, !.logs = kept]

\* recordHit's update of the hook: hits, lastHit, unshift, slice to the limit.
FileRecordHitUpdate(hook, entry, limit) ==
    LET pushed == <<entry>> \o hook.logs
    IN  [hook EXCEPT !.hits = hook.hits + 1,
                     !.lastHit = <<entry.timestamp>>,
                     !.logs = IF Len(pushed) > limit THEN SubSeq(pushed, 1, limit) ELSE pushed]

\* clearLogs that empties the logs and keeps the counter.
ClearLogsKeepsHits(hook) == [hook EXCEPT !.logs = <<>>, !.lastHit = NoTime]

\* clearLogs that also puts the metadata back to null.
ClearLogsDropsMetadata(hook) ==
    [hook EXCEPT !.logs = <<>>, !.hits = 0, !.lastHit = NoTime, !.metadata = "null"]

\* clearLogs' update of the hook.
ClearLogsUpdate(hook) == [hook EXCEPT !.logs = <<>>, !.hits = 0, !.lastHit = NoTime]

\* normalizeState on a parsed document, and JSON.parse(raw || '{"hooks":{}}') before it.
ParseFile(file) == IF file.kind = "doc" THEN file.hooks ELSE EmptyHooks

\* getHook(slug): <<>> for null, <<copy>> for the record.
FileGetHook(slug) == IF slug \in DOMAIN state THEN <<state[slug]>> ELSE <<>>

ApplySchedule(f) ==
    /\ writePromise' = f.wp
    /\ pendingFlush' = f.pf
    /\ persists' = f.ps

\* init(): read the file; when it is absent write the empty registry out.
FileInit ==
    /\ engine = "file" /\ phase = "new"
    /\ ret' = <<>>
    /\ UNCHANGED <<engine, logLimit, now, disk, writePromise, pendingFlush,
                   collection, calls, histVars, clientVars>>
    /\ CASE disk.kind = "absent" ->
              /\ state' = EmptyHooks
              /\ persists' = Append(persists, NewPersist(FALSE, ver))
              /\ phase' = "init"
         [] disk.kind = "partial" ->
              /\ phase' = "failed"
              /\ UNCHANGED <<state, persists>>
         [] OTHER ->
              /\ state' = ParseFile(disk)
              /\ phase' = "ready"
              /\ UNCHANGED persists

\* createHook that stores the new record before it tests for the slug.
FileCreateHookClobber(slug, description, id) ==
    /\ engine = "file" /\ phase = "ready"
    /\ IF slug \in DOMAIN state
       THEN /\ now' \in Clock
            /\ state' = Put(state, slug, NewHook(id, slug, description, now'))
            /\ ret' = <<Result("createHook", slug, 409, "none", 0)>>
            /\ UNCHANGED <<writePromise, pendingFlush, persists, calls, histVars>>
       ELSE /\ ver < MaxVer /\ Len(calls) < MaxCalls
            /\ now' \in Clock
            /\ state' = Put(state, slug, NewHook(id, slug, description, now'))
            /\ ApplySchedule(SchedulePersist(writePromise, pendingFlush, persists, ver + 1))
            /\ calls' = Append(calls, Call("createHook", slug, <<>>, <<>>, 0, ver + 1))
            /\ ret' = <<>>
            /\ ver' = ver + 1
            /\ delivered' = [delivered EXCEPT ![slug] = <<>>]
            /\ touched' = touched \cup {slug}
            /\ UNCHANGED maxLimit
    /\ UNCHANGED <<engine, logLimit, phase, disk, collection>>

FileCreateHook(slug, description, id) ==
    /\ engine = "file" /\ phase = "ready"
    /\ IF slug \in DOMAIN state
       THEN /\ ret' = <<Result("createHook", slug, 409, "none", 0)>>
            /\ UNCHANGED <<now, state, writePromise, pendingFlush, persists, calls, histVars>>
       ELSE /\ ver < MaxVer /\ Len(calls) < MaxCalls
            /\ now' \in Clock
            /\ state' = Put(state, slug, NewHook(id, slug, description, now'))
            /\ ApplySchedule(SchedulePersist(writePromise, pendingFlush, persists, ver + 1))
            /\ calls' = Append(calls, Call("createHook", slug, <<>>, <<>>, 0, ver + 1))
            /\ ret' = <<>>
            /\ ver' = ver + 1
            /\ delivered' = [delivered EXCEPT ![slug] = <<>>]
            /\ touched' = touched \cup {slug}
            /\ UNCHANGED maxLimit
    /\ UNCHANGED <<engine, logLimit, phase, disk, collection>>

\* A deleteHook that schedules a flush also when the slug is absent.
FileDeleteHookAlwaysFlushes(slug) ==
    /\ engine = "file" /\ phase = "ready"
    /\ IF slug \notin DOMAIN state
       THEN /\ ret' = <<Result("deleteHook", slug, 200, "false", 0)>>
            /\ ApplySchedule(SchedulePersist(writePromise, pendingFlush, persists, ver))
            /\ UNCHANGED <<state, calls, histVars>>
       ELSE /\ ver < MaxVer /\ Len(calls) < MaxCalls
            /\ state' = Drop(state, slug)
            /\ ApplySchedule(SchedulePersist(writePromise, pendingFlush, persists, ver + 1))
            /\ calls' = Append(calls, Call("deleteHook", slug, <<>>, <<>>, 0, ver + 1))
            /\ ret' = <<>>
            /\ ver' = ver + 1
            /\ delivered' = [delivered EXCEPT ![slug] = <<>>]
            /\ touched' = touched \ {slug}
            /\ UNCHANGED maxLimit
    /\ UNCHANGED <<engine, logLimit, phase, now, disk, collection>>

FileDeleteHook(slug) ==
    /\ engine = "file" /\ phase = "ready"
    /\ IF slug \notin DOMAIN state
       THEN /\ ret' = <<Result("deleteHook", slug, 200, "false", 0)>>
            /\ UNCHANGED <<state, writePromise, pendingFlush, persists, calls, histVars>>
       ELSE /\ ver < MaxVer /\ Len(calls) < MaxCalls
            /\ state' = Drop(state, slug)
            /\ ApplySchedule(SchedulePersist(writePromise, pendingFlush, persists, ver + 1))
            /\ calls' = Append(calls, Call("deleteHook", slug, <<>>, <<>>, 0, ver + 1))
            /\ ret' = <<>>
            /\ ver' = ver + 1
            /\ delivered' = [delivered EXCEPT ![slug] = <<>>]
            /\ touched' = touched \ {slug}
            /\ UNCHANGED maxLimit
    /\ UNCHANGED <<engine, logLimit, phase, now, disk, collection>>

\* recordHit that registers the slug when it is not registered.
FileRecordHitRecreates(slug, body) ==
    /\ engine = "file" /\ phase = "ready"
    /\ ver < MaxVer
    /\ now' \in Clock
    /\ state' = Put(state, slug,
                    FileRecordHitUpdate(IF slug \in DOMAIN state THEN state[slug]
                                        ELSE NewHook("h1", slug, "", now'),
                                        MakeEntry(now', body), logLimit))
    /\ ApplySchedule(SchedulePersist(writePromise, pendingFlush, persists, ver + 1))
    /\ ret' = <<Result("recordHit", slug, 200, "none", ver + 1)>>
    /\ ver' = ver + 1
    /\ delivered' = [delivered EXCEPT ![slug] = Append(@, MakeEntry(now', body))]
    /\ touched' = touched \cup {slug}
    /\ UNCHANGED maxLimit
    /\ UNCHANGED <<engine, logLimit, phase, disk, collection, calls>>

\* A recordHit that awaits the flush it scheduled before it returns, like clearLogs.
FileRecordHitAwaitsFlush(slug, body) ==
    /\ engine = "file" /\ phase = "ready"
    /\ IF slug \notin DOMAIN state
       THEN /\ ret' = <<Result("recordHit", slug, 404, "none", 0)>>
            /\ UNCHANGED <<now, state, writePromise, pendingFlush, persists, calls, histVars>>
       ELSE /\ ver < MaxVer /\ Len(calls) < MaxCalls
            /\ now' \in Clock
            /\ state' = [state EXCEPT
                           ![slug] = FileRecordHitUpdate(@, MakeEntry(now', body), logLimit)]
            /\ ApplySchedule(SchedulePersist(writePromise, pendingFlush, persists, ver + 1))
            /\ calls' = Append(calls, Call("recordHit", slug, <<>>, <<>>, 0, ver + 1))
            /\ ret' = <<>>
            /\ ver' = ver + 1
            /\ delivered' = [delivered EXCEPT ![slug] = Append(@, MakeEntry(now', body))]
            /\ touched' = touched \cup {slug}
            /\ UNCHANGED maxLimit
    /\ UNCHANGED <<engine, logLimit, phase, disk, collection>>

FileRecordHit(slug, body) ==
    /\ engine = "file" /\ phase = "ready"
    /\ IF slug \notin DOMAIN state
       THEN /\ ret' = <<Result("recordHit", slug, 404, "none", 0)>>
            /\ UNCHANGED <<now, state, writePromise, pendingFlush, persists, histVars>>
       ELSE /\ ver < MaxVer
            /\ now' \in Clock
            /\ state' = [state EXCEPT
                           ![slug] = FileRecordHitUpdate(@, MakeEntry(now', body), logLimit)]
            /\ ApplySchedule(SchedulePersist(writePromise, pendingFlush, persists, ver + 1))
            /\ ret' = <<Result("recordHit", slug, 200, "none", ver + 1)>>
            /\ ver' = ver + 1
            /\ delivered' = [delivered EXCEPT ![slug] = Append(@, MakeEntry(now', body))]
            /\ touched' = touched \cup {slug}
            /\ UNCHANGED maxLimit
    /\ UNCHANGED <<engine, logLimit, phase, disk, collection, calls>>

FileClearLogs(slug) ==
    /\ engine = "file" /\ phase = "ready"
    /\ IF slug \notin DOMAIN state
       THEN /\ ret' = <<Result("clearLogs", slug, 404, "none", 0)>>
            /\ UNCHANGED <<state, writePromise, pendingFlush, persists, calls, histVars>>
       ELSE /\ ver < MaxVer /\ Len(calls) < MaxCalls
            /\ state' = [state EXCEPT ![slug] = ClearLogsUpdate(@)]
            /\ ApplySchedule(SchedulePersist(writePromise, pendingFlush, persists, ver + 1))
            /\ calls' = Append(calls, Call("clearLogs", slug, <<>>, <<>>, 0, ver + 1))
            /\ ret' = <<>>
            /\ ver' = ver + 1
            /\ delivered' = [delivered EXCEPT ![slug] = <<>>]
            /\ touched' = touched \cup {slug}
            /\ UNCHANGED maxLimit
    /\ UNCHANGED <<engine, logLimit, phase, now, disk, collection>>

\* The callers awaiting writePromise resume, in the order they called.
Resolved(cs) == [i \in 1..Len(cs) |->
                   Result(cs[i].op, cs[i].slug, 200,
                          IF cs[i].op = "deleteHook" THEN "true" ELSE "none", cs[i].ver)]

\* The callers awaiting writePromise are rejected with the error of the flush.
Rejected(cs) == [i \in 1..Len(cs) |-> Result(cs[i].op, cs[i].slug, 500, "none", cs[i].ver)]

\* A schedulePersist without its .catch: writePromise rejects when persist() rejects.
SettleSurfacing(i, ok) ==
    LET rest == RemoveAt(persists, i)
    IN  IF persists[i].tracked
        THEN /\ ApplySchedule(OnPersistSettled(pendingFlush, rest, ver))
             /\ ret' = IF ok THEN Resolved(calls) ELSE Rejected(calls)
             /\ calls' = <<>>
             /\ UNCHANGED phase
        ELSE /\ persists' = rest
             /\ phase' = IF ok THEN "ready" ELSE "failed"
             /\ ret' = <<>>
             /\ UNCHANGED <<writePromise, pendingFlush, calls>>

\* persist() number i has ended (ok: it resolved): init() resumes after its own
\* persist(); a persist() of schedulePersist runs .catch and .finally, and writePromise
\* resolves either way.
Settle(i, ok) ==
    LET rest == RemoveAt(persists, i)
    IN  IF persists[i].tracked
        THEN /\ ApplySchedule(OnPersistSettled(pendingFlush, rest, ver))
             /\ ret' = Resolved(calls)
             /\ calls' = <<>>
             /\ UNCHANGED phase
        ELSE /\ persists' = rest
             /\ phase' = IF ok THEN "ready" ELSE "failed"
             /\ ret' = <<>>
             /\ UNCHANGED <<writePromise, pendingFlush, calls>>

\* persist(): fs.mkdir resolved; the state is serialised and fs.writeFile starts.
MkdirDone(i) ==
    /\ i \in 1..Len(persists)
    /\ persists[i].phase = "mkdir"
    /\ persists' = [persists EXCEPT ![i] = [@ EXCEPT !.phase = "write",
                                                     !.hooks = state,
                                                     !.ver = ver]]
    /\ ret' = <<>>
    /\ UNCHANGED <<engine, logLimit, phase, now, state, disk, writePromise, pendingFlush,
                   collection, calls, histVars>>

\* persist(): fs.writeFile resolved.
WriteDone(i) ==
    /\ i \in 1..Len(persists)
    /\ persists[i].phase = "write"
    /\ disk' = DocFile(persists[i].hooks, persists[i].ver)
    /\ Settle(i, TRUE)
    /\ UNCHANGED <<engine, logLimit, now, state, collection, histVars>>

\* persist(): fs.mkdir rejected.
MkdirFail(i) ==
    /\ i \in 1..Len(persists)
    /\ persists[i].phase = "mkdir"
    /\ Settle(i, FALSE)
    /\ UNCHANGED <<engine, logLimit, now, state, disk, collection, histVars>>

\* persist(): fs.writeFile rejected; the file is as it was, or truncated, or cut short.
WriteFail(i) ==
    /\ i \in 1..Len(persists)
    /\ persists[i].phase = "write"
    /\ \E left \in {"asbefore", "empty", "partial"} :
           disk' = IF left = "asbefore" THEN disk ELSE NoDocFile(left)
    /\ Settle(i, FALSE)
    /\ UNCHANGED <<engine, logLimit, now, state, collection, histVars>>

(* ---------------------- a caller of FileWebhookStore --------------------- *)

\* What a caller keeps of a call: the operation and slug it came from and the parts of
\* the registry the kept value is the same object as ("hook": the record itself,
\* "metadata": the record's metadata object, "entry": the first entry of its logs).
\* changed: the caller has written to the value.
Handle(op, slug, shares) == [op |-> op, slug |-> slug, shares |-> shares, changed |-> FALSE]

\* A getHook that returns the record itself.
GetHookSharesLive(slug) == {"hook"}

\* getHook returns JSON.parse(JSON.stringify(hook)): a value that shares nothing.
GetHookShares(slug) == {}

\* listHooks builds a new object per hook and copies the metadata reference into it.
ListHooksShares(slug) == {"metadata"}

\* createHook resolves with the object it stored.
CreateHookShares(slug) == {"hook"}

\* createHook stores the metadata object it was passed.
CreateHookArgShares(slug) == {"metadata"}

\* clearLogs resolves with the object the registry holds.
ClearLogsShares(slug) == {"hook"}

\* recordHit unshifts the entry object it was passed and returns it; the slice keeps it
\* only when the limit leaves room for one entry.
RecordHitShares(slug, limit) == IF limit >= 1 THEN {"entry"} ELSE {}

\* delete this.state.hooks[slug]: the record leaves the registry, and what a caller holds
\* of it shares nothing with the registry any more.
Detach(hd, slug) ==
    IF hd # <<>> /\ hd[1].slug = slug THEN <<[hd[1] EXCEPT !.shares = {}]>> ELSE hd

\* The registry after the caller wrote to the value it holds through handle h: to the
\* metadata it reaches through a record or a metadata object, to the body of an entry.
Tampered(hooks, h) ==
    IF h.slug \notin DOMAIN hooks THEN hooks
    ELSE IF h.shares \cap {"hook", "metadata"} # {}
         THEN [hooks EXCEPT ![h.slug].metadata = "{x}"]
    ELSE IF "entry" \in h.shares /\ hooks[h.slug].logs # <<>>
         THEN [hooks EXCEPT ![h.slug].logs[1].body = "x"]
    ELSE hooks

\* The caller makes one call at a time and lets the store settle before the next one: it
\* calls while no call is pending and no flush is in flight.
CallerFree ==
    /\ engine = "file" /\ phase = "ready" /\ calls = <<>>
    /\ writePromise = "null" /\ persists = <<>>

CallerGetHook ==
    /\ CallerFree
    /\ \E s \in Slugs :
          held' = IF FileGetHook(s) = <<>> THEN <<>> ELSE <<Handle("getHook", s, GetHookShares(s))>>
    /\ ret' = <<>>
    /\ UNCHANGED <<engine, logLimit, phase, now, fileVars, collection, calls, histVars, reqs, client, sideVars>>

CallerListHooks ==
    /\ CallerFree
    /\ \E s \in DOMAIN state : held' = <<Handle("listHooks", s, ListHooksShares(s))>>
    /\ ret' = <<>>
    /\ UNCHANGED <<engine, logLimit, phase, now, fileVars, collection, calls, histVars, reqs, client, sideVars>>

\* The caller keeps the record createHook resolves with, or the metadata it passed.
CallerCreateHook ==
    /\ CallerFree
    /\ \E s \in Slugs, d \in Descriptions, id \in Ids, arg \in BOOLEAN :
          /\ FileCreateHook(s, d, id)
          /\ held' = IF s \in DOMAIN state THEN held
                     ELSE IF arg THEN <<Handle("createHook", s, CreateHookArgShares(s))>>
                     ELSE <<Handle("createHook", s, CreateHookShares(s))>>
    /\ UNCHANGED <<reqs, client, sideVars>>

CallerDeleteHook ==
    /\ CallerFree
    /\ \E s \in Slugs : FileDeleteHook(s) /\ held' = Detach(held, s)
    /\ UNCHANGED <<reqs, client, sideVars>>

CallerRecordHit ==
    /\ CallerFree
    /\ \E s \in Slugs, b \in Bodies :
          /\ FileRecordHit(s, b)
          /\ held' = IF s \notin DOMAIN state THEN held
                     ELSE <<Handle("recordHit", s, RecordHitShares(s, logLimit))>>
    /\ UNCHANGED <<reqs, client, sideVars>>

CallerClearLogs ==
    /\ CallerFree
    /\ \E s \in Slugs :
          /\ FileClearLogs(s)
          /\ held' = IF s \notin DOMAIN state THEN held
                     ELSE <<Handle("clearLogs", s, ClearLogsShares(s))>>
    /\ UNCHANGED <<reqs, client, sideVars>>

\* The caller writes to the value it holds: no store operation is called.
CallerMutate ==
    /\ CallerFree
    /\ held # <<>>
    /\ ~held[1].changed
    /\ held' = <<[held[1] EXCEPT !.changed = TRUE]>>
    /\ state' = Tampered(state, held[1])
    /\ ret' = <<>>
    /\ UNCHANGED <<engine, logLimit, phase, now, disk, writePromise, pendingFlush, persists,
                   collection, calls, histVars, reqs, client, sideVars>>

(* --------------------------- MongoWebhookStore -------------------------- *)

\* The position of the first document with the slug (what a {slug} filter matches), or 0.
IndexOfSlug(coll, slug) ==
    IF \E i \in 1..Len(coll) : coll[i].slug = slug
    THEN CHOOSE i \in 1..Len(coll) :
             /\ coll[i].slug = slug
             /\ \A j \in 1..(i - 1) : coll[j].slug # slug
    ELSE 0

\* insertOne on a collection without the unique index.
InsertOneNoIndex(coll, hook) == Append(coll, hook)

\* insertOne under the unique index on slug that init() created: the collection after
\* the insert, or the collection itself when the insert fails with E11000.
InsertOne(coll, hook) ==
    IF IndexOfSlug(coll, hook.slug) # 0 THEN coll ELSE Append(coll, hook)

\* An update that pushes at the end of logs ($position left out).
MongoRecordHitPushLast(doc, entry, limit) ==
    [doc EXCEPT !.hits = doc.hits + 1,
                !.lastHit = <<entry.timestamp>>,
                !.logs = Take(doc.logs \o <<entry>>, limit)]

\* An update without $inc: hits is left as it was.
MongoRecordHitNoInc(doc, entry, limit) ==
    [doc EXCEPT !.lastHit = <<entry.timestamp>>,
                !.logs = Take(<<entry>> \o doc.logs, limit)]

\* recordHit's update with a $push that has no $slice.
MongoRecordHitNoSlice(doc, entry, limit) ==
    [doc EXCEPT !.hits = doc.hits + 1,
                !.lastHit = <<entry.timestamp>>,
                !.logs = <<entry>> \o doc.logs]

\* recordHit's update document: $inc hits, $set lastHit, $push {$each, $position: 0, $slice}.
MongoRecordHitUpdate(doc, entry, limit) ==
    [doc EXCEPT !.hits = doc.hits + 1,
                !.lastHit = <<entry.timestamp>>,
                !.logs = Take(<<entry>> \o doc.logs, limit)]

\* getHook(slug): findOne and sanitizeHook.
MongoGetHook(slug) ==
    LET i == IndexOfSlug(collection, slug)
    IN  IF i = 0 THEN <<>> ELSE <<collection[i]>>

\* init(): connect and create the unique index.
MongoInit ==
    /\ engine = "mongo" /\ phase = "new"
    /\ phase' = "ready"
    /\ client' = Client(1, 1, TRUE, TRUE)
    /\ ret' = <<>>
    /\ UNCHANGED <<engine, logLimit, now, fileVars, collection, calls, histVars, held, reqs,
                   sideVars>>

\* A call is made: its request is built and sent. Every request in flight may still
\* mutate the registry, so the mutation budget counts them.
MongoSend(call) ==
    /\ engine = "mongo" /\ phase = "ready"
    /\ Len(calls) < MaxCalls
    /\ ver + Len(calls) < MaxVer
    /\ calls' = Append(calls, call)
    /\ ret' = <<>>
    /\ UNCHANGED <<engine, logLimit, phase, fileVars, collection, histVars>>

MongoCreateHook(slug, description, id) ==
    /\ now' \in Clock
    /\ MongoSend(Call("createHook", slug, <<NewHook(id, slug, description, now')>>,
                      <<>>, 0, 0))

MongoDeleteHook(slug) ==
    /\ MongoSend(Call("deleteHook", slug, <<>>, <<>>, 0, 0))
    /\ UNCHANGED now

MongoRecordHit(slug, body) ==
    /\ now' \in Clock
    /\ MongoSend(Call("recordHit", slug, <<>>, <<MakeEntry(now', body)>>, logLimit, 0))

MongoClearLogs(slug) ==
    /\ MongoSend(Call("clearLogs", slug, <<>>, <<>>, 0, 0))
    /\ UNCHANGED now

\* createHook: the database executes insertOne and the call returns or throws.
MongoExecCreate(c) ==
    /\ c.op = "createHook"
    /\ collection' = InsertOne(collection, c.hook[1])
    /\ IF collection' = collection
       THEN /\ ret' = <<Result("createHook", c.slug, 409, "none", 0)>>
            /\ UNCHANGED histVars
       ELSE /\ ret' = <<Result("createHook", c.slug, 200, "none", ver + 1)>>
            /\ ver' = ver + 1
            /\ delivered' = [delivered EXCEPT ![c.slug] = <<>>]
            /\ touched' = touched \cup {c.slug}
            /\ UNCHANGED maxLimit

\* A document without the fields a projection {field: 0} leaves out.
Project(doc, out) == [f \in (DOMAIN doc) \ out |-> doc[f]]

\* sanitizeHook(doc): the document without _id, metadata put to {} when it is falsy
\* (absent or null), logs put to [] when it is absent.
SanitizeHook(doc) ==
    [f \in ((DOMAIN doc) \ {"_id"}) \cup {"metadata", "logs"} |->
        IF f = "metadata"
        THEN IF "metadata" \in DOMAIN doc /\ doc.metadata # "null" THEN doc.metadata ELSE "{}"
        ELSE IF f = "logs"
        THEN IF "logs" \in DOMAIN doc THEN doc.logs ELSE <<>>
        ELSE doc[f]]

\* deleteHook: deleteOne({slug}) and deletedCount > 0.
MongoExecDelete(c) ==
    LET i == IndexOfSlug(collection, c.slug)
    IN  /\ c.op = "deleteHook"
        /\ IF i = 0
           THEN /\ ret' = <<Result("deleteHook", c.slug, 200, "false", 0)>>
                /\ UNCHANGED <<collection, histVars>>
           ELSE /\ collection' = RemoveAt(collection, i)
                /\ ret' = <<Result("deleteHook", c.slug, 200, "true", ver + 1)>>
                /\ ver' = ver + 1
                /\ delivered' = [delivered EXCEPT ![c.slug] = <<>>]
                /\ touched' = touched \ {c.slug}
                /\ UNCHANGED maxLimit

\* recordHit whose findOneAndUpdate upserts.
MongoExecRecordHitUpsert(c) ==
    LET i == IndexOfSlug(collection, c.slug)
        fresh == NewHook("h1", c.slug, "", c.entry[1].timestamp)
    IN  /\ c.op = "recordHit"
        /\ collection' = IF i = 0
                         THEN Append(collection, MongoRecordHitUpdate(fresh, c.entry[1], c.limit))
                         ELSE [collection EXCEPT
                                 ![i] = MongoRecordHitUpdate(@, c.entry[1], c.limit)]
        /\ ret' = <<Result("recordHit", c.slug, 200, "none", ver + 1)>>
        /\ ver' = ver + 1
        /\ delivered' = [delivered EXCEPT ![c.slug] = Append(@, c.entry[1])]
        /\ touched' = touched \cup {c.slug}
        /\ UNCHANGED maxLimit

\* recordHit: findOneAndUpdate({slug}, update) and the check of its result.
MongoExecRecordHit(c) ==
    LET i == IndexOfSlug(collection, c.slug)
    IN  /\ c.op = "recordHit"
        /\ IF i = 0
           THEN /\ ret' = <<Result("recordHit", c.slug, 404, "none", 0)>>
                /\ UNCHANGED <<collection, histVars>>
           ELSE /\ collection' = [collection EXCEPT
                                    ![i] = MongoRecordHitUpdate(@, c.entry[1], c.limit)]
                /\ ret' = <<Result("recordHit", c.slug, 200, "none", ver + 1)>>
                /\ ver' = ver + 1
                /\ delivered' = [delivered EXCEPT ![c.slug] = Append(@, c.entry[1])]
                /\ touched' = touched \cup {c.slug}
                /\ UNCHANGED maxLimit

\* clearLogs: findOneAndUpdate({slug}, {$set: {logs: [], hits: 0, lastHit: null}}).
MongoExecClearLogs(c) ==
    LET i == IndexOfSlug(collection, c.slug)
    IN  /\ c.op = "clearLogs"
        /\ IF i = 0
           THEN /\ ret' = <<Result("clearLogs", c.slug, 404, "none", 0)>>
                /\ UNCHANGED <<collection, histVars>>
           ELSE /\ collection' = [collection EXCEPT ![i] = ClearLogsUpdate(@)]
                /\ ret' = <<Result("clearLogs", c.slug, 200, "none", ver + 1)>>
                /\ ver' = ver + 1
                /\ delivered' = [delivered EXCEPT ![c.slug] = <<>>]
                /\ touched' = touched \cup {c.slug}
                /\ UNCHANGED maxLimit

\* The database executes request i, as one atomic operation, and its call completes.
MongoExec(i) ==
    /\ engine = "mongo"
    /\ i \in 1..Len(calls)
    /\ calls' = RemoveAt(calls, i)
    /\ \/ MongoExecCreate(calls[i])
       \/ MongoExecDelete(calls[i])
       \/ MongoExecRecordHit(calls[i])
       \/ MongoExecClearLogs(calls[i])
    /\ UNCHANGED <<engine, logLimit, phase, now, fileVars>>

(* ------------------------------ the slug -------------------------------- *)

\* A text is a sequence of characters. The characters requests are made of here: the
\* letters of "meta", an upper-case letter, the hyphen, the space.
Chars == {"m", "e", "t", "a", "B", "-", " "}

RawSlugs == UNION {[1..n -> Chars] : n \in 0..MaxRaw}

MIN_SLUG_LENGTH == 2
MAX_SLUG_LENGTH == 64

\* RESERVED_PATHS.
RESERVED_PATHS ==
    {<<"w", "e", "b", "h", "o", "o", "k", "s">>,
     <<"h", "o", "o", "k", "s">>,
     <<"h", "e", "a", "l", "t", "h">>,
     <<"f", "a", "v", "i", "c", "o", "n", ".", "i", "c", "o">>,
     <<"m", "e", "t", "a">>,
     <<"r", "e", "c", "e", "n", "t">>}

\* [a-z0-9@._-], as far as Chars goes.
IsSlugChar(c) == c \in {"m", "e", "t", "a", "b", "-"}

RECURSIVE TrimLeft(_)
TrimLeft(text) ==
    IF text # <<>> /\ Head(text) = " " THEN TrimLeft(Tail(text)) ELSE text

\* String.prototype.trim.
Trim(text) == Reverse(TrimLeft(Reverse(TrimLeft(text))))

\* String.prototype.toLowerCase.
ToLowerCase(text) == [i \in 1..Len(text) |-> IF text[i] = "B" THEN "b" ELSE text[i]]

\* replace(/[^a-z0-9@._-]+/gi, '-') followed by replace(/-+/g, '-'): every run of
\* characters outside the class, and then every run of hyphens, becomes one hyphen.
RECURSIVE Hyphenate(_)
Hyphenate(text) ==
    IF text = <<>> THEN <<>>
    ELSE LET c == IF IsSlugChar(Head(text)) THEN Head(text) ELSE "-"
             rest == Hyphenate(Tail(text))
         IN  IF c = "-" /\ rest # <<>> /\ Head(rest) = "-" THEN rest ELSE <<c>> \o rest

\* replace(/^-|-$/g, ''): one hyphen off the start and one off the end.
StripHyphens(text) ==
    LET t1 == IF text # <<>> /\ Head(text) = "-" THEN Tail(text) ELSE text
    IN  IF t1 # <<>> /\ t1[Len(t1)] = "-" THEN SubSeq(t1, 1, Len(t1) - 1) ELSE t1

\* normaliseSlug(value); <<>> is the empty string.
NormaliseSlug(value) ==
    IF value = <<>> THEN <<>> ELSE StripHyphens(Hyphenate(ToLowerCase(Trim(value))))

\* validateSlug(slug) returns (TRUE) or throws 400 (FALSE).
ValidateSlug(slug) ==
    /\ slug # <<>>
    /\ Len(slug) >= MIN_SLUG_LENGTH /\ Len(slug) <= MAX_SLUG_LENGTH
    /\ \A i \in 1..Len(slug) : IsSlugChar(slug[i])

\* guardReservedSlug(slug) returns (TRUE) or throws 400 (FALSE).
GuardReservedSlug(slug) == slug \notin RESERVED_PATHS

\* POST /webhooks with body {slug: raw}: the slug the route hands to store.getHook and
\* store.createHook, <<slug>>, or <<>> when the request is rejected before.
ManagementSlug(raw) ==
    LET normalisedSlug == NormaliseSlug(raw)
    IN  IF ValidateSlug(normalisedSlug) /\ GuardReservedSlug(normalisedSlug)
        THEN <<normalisedSlug>> ELSE <<>>

\* POST /raw or /hooks/raw: the slug the delivery handler hands to store.getHook and,
\* when that returns null, to store.createHook, or <<>> when it calls next() before.
DeliverySlug(raw) ==
    LET slug == NormaliseSlug(raw)
    IN  IF slug = <<>> \/ slug \in RESERVED_PATHS THEN <<>> ELSE <<slug>>

\* A request carrying a slug comes in on one of the two paths that create hooks.
RouteSlug ==
    /\ slugIn = <<>>
    /\ \E raw \in RawSlugs :
          \/ slugIn' = [raw |-> raw, path |-> "management", slug |-> ManagementSlug(raw)]
          \/ slugIn' = [raw |-> raw, path |-> "delivery", slug |-> DeliverySlug(raw)]
    /\ UNCHANGED <<engine, logLimit, phase, now, fileVars, collection, calls, ret, histVars,
                   held, reqs, client, cfg, both, bridge>>

(* ----------------------- the delivery handler ---------------------------- *)

\* The handler of request r moves to pc, leaving with status when it ends.
Advance(r, pc, status, t, v) ==
    reqs' = [reqs EXCEPT ![r] = [@ EXCEPT !.pc = pc, !.status = status, !.t = t, !.ver = v]]

\* A POST for a valid, non-reserved slug arrives: the handler calls getHook. On the file
\* store getHook returns at once and the handler goes on in the same turn of the event
\* loop: to reading the body when the slug is registered, into createHook when it is
\* not. On the Mongo store getHook sends findOne and waits.
HandlerReceive(r) ==
    /\ phase = "ready"
    /\ reqs[r].pc = "idle"
    /\ \E s \in Slugs :
          IF engine = "mongo"
          THEN /\ reqs' = [reqs EXCEPT ![r] = [@ EXCEPT !.pc = "lookup", !.slug = s]]
               /\ ret' = <<>>
               /\ UNCHANGED <<engine, logLimit, phase, now, fileVars, collection, calls,
                              histVars, held, client, sideVars>>
          ELSE IF FileGetHook(s) # <<>>
          THEN /\ reqs' = [reqs EXCEPT ![r] = [@ EXCEPT !.pc = "body", !.slug = s]]
               /\ ret' = <<>>
               /\ UNCHANGED <<engine, logLimit, phase, now, fileVars, collection, calls,
                              histVars, held, client, sideVars>>
          ELSE /\ \E id \in Ids : FileCreateHook(s, "", id)
               /\ reqs' = [reqs EXCEPT
                             ![r] = [@ EXCEPT !.pc = "create", !.slug = s, !.ver = ver + 1]]
               /\ UNCHANGED <<held, client, sideVars>>

\* Mongo store: the database answers the handler's findOne. With a record the handler
\* goes on to read the body, with null it builds the hook literal and sends insertOne.
HandlerLookup(r) ==
    /\ engine = "mongo"
    /\ reqs[r].pc = "lookup"
    /\ IF MongoGetHook(reqs[r].slug) # <<>>
       THEN Advance(r, "body", 0, 0, 0) /\ UNCHANGED now
       ELSE now' \in Clock /\ Advance(r, "create", 0, now', 0)
    /\ ret' = <<>>
    /\ UNCHANGED <<engine, logLimit, phase, fileVars, collection, calls, histVars, held, client, sideVars>>

\* Mongo store: the database executes the handler's insertOne. A duplicate key makes
\* createHook throw 409 and the handler hands the error on (next(err)): the request
\* ends with that status.
HandlerInsert(r) ==
    /\ engine = "mongo"
    /\ reqs[r].pc = "create"
    /\ ver < MaxVer
    /\ \E id \in Ids :
          MongoExecCreate(Call("createHook", reqs[r].slug,
                               <<NewHook(id, reqs[r].slug, "", reqs[r].t)>>, <<>>, 0, 0))
    /\ IF collection' = collection
       THEN Advance(r, "done", 409, 0, 0)
       ELSE Advance(r, "body", 0, 0, 0)
    /\ UNCHANGED <<engine, logLimit, phase, now, fileVars, calls, held, client, sideVars>>

\* File store: the flush the handler's createHook awaited has settled.
HandlerCreated(r) ==
    /\ engine = "file"
    /\ reqs[r].pc = "create"
    /\ \A i \in 1..Len(calls) : ~(calls[i].op = "createHook" /\ calls[i].ver = reqs[r].ver)
    /\ Advance(r, "body", 0, 0, 0)
    /\ ret' = <<>>
    /\ UNCHANGED <<engine, logLimit, phase, now, fileVars, collection, calls, histVars, held, client, sideVars>>

\* The route that answers a request for a valid, non-reserved slug: app.get('/:slug') is
\* registered before the handler and answers every GET on /:slug with the index page;
\* every other request reaches the handler (app.all).
AnsweredBy(method, route) ==
    IF method = "GET" /\ route = "/:slug" THEN "page" ELSE "hookHandler"

\* A request that is not a POST arrives for a valid, non-reserved slug: the page route
\* sends the index file (200), the handler answers 405 before it calls the store.
HandlerOther(r) ==
    /\ phase = "ready"
    /\ reqs[r].pc = "idle"
    /\ \E m \in OtherMethods, rt \in Routes, s \in Slugs :
          reqs' = [reqs EXCEPT
                     ![r] = [@ EXCEPT !.pc = "done", !.slug = s, !.method = m, !.route = rt,
                                      !.status = IF AnsweredBy(m, rt) = "page" THEN 200 ELSE 405]]
    /\ ret' = <<>>
    /\ UNCHANGED <<engine, logLimit, phase, now, fileVars, collection, calls, histVars, held,
                   client, sideVars>>

\* The statusCode of the error safeReadBody throws: 413 for a body over the payload
\* limit, none (the error middleware answers 500) for any other failure of the read.
BodyErrors == {413, 500}

\* The handler's safeReadBody rejects: the handler hands the error on (next(err)) and
\* the request ends with its status. recordHit is not called.
HandlerBodyFail(r) ==
    /\ reqs[r].pc = "body"
    /\ \E status \in BodyErrors : Advance(r, "done", status, 0, 0)
    /\ ret' = <<>>
    /\ UNCHANGED <<engine, logLimit, phase, now, fileVars, collection, calls, histVars, held,
                   client, sideVars>>

\* safeReadBody has returned an acceptable body: the handler builds the entry and calls
\* recordHit. On the file store recordHit runs at once and the handler answers
\* stored: true, or hands on the 404 it threw. On the Mongo store it sends
\* findOneAndUpdate and waits.
HandlerBody(r) ==
    /\ reqs[r].pc = "body"
    /\ IF engine = "mongo"
       THEN /\ now' \in Clock
            /\ Advance(r, "record", 0, now', 0)
            /\ ret' = <<>>
            /\ UNCHANGED <<engine, logLimit, phase, fileVars, collection, calls, histVars, held, client, sideVars>>
       ELSE /\ \E b \in Bodies : FileRecordHit(reqs[r].slug, b)
            /\ Advance(r, "done", ret'[1].status, 0, 0)
            /\ UNCHANGED <<held, client, sideVars>>

\* Mongo store: the database executes the handler's findOneAndUpdate: the handler
\* answers stored: true, or hands on the 404 recordHit threw.
HandlerRecord(r) ==
    /\ engine = "mongo"
    /\ reqs[r].pc = "record"
    /\ ver < MaxVer
    /\ \E b \in Bodies :
          MongoExecRecordHit(Call("recordHit", reqs[r].slug, <<>>,
                                  <<MakeEntry(reqs[r].t, b)>>, logLimit, 0))
    /\ Advance(r, "done", ret'[1].status, 0, 0)
    /\ UNCHANGED <<engine, logLimit, phase, now, fileVars, calls, held, client, sideVars>>

(* ------------------------------ start-up -------------------------------- *)

\* The values of the options mongoUri and filePath: not given, the empty string, or a
\* non-empty string.
Configs == {Config(m, f) : m \in {"unset", "empty", "uri"}, f \in {"unset", "path"}}

\* A value JavaScript takes as true: a non-empty string.
Truthy(option) == option \notin {"unset", "empty"}

\* A selection that falls back on the file engine whenever a file path is given.
CreateWebhookStorePrefersFile(options) ==
    IF Truthy(options.filePath) THEN "file"
    ELSE IF Truthy(options.mongoUri) THEN "mongo"
    ELSE "throw"

\* createWebhookStore(options): the engine it constructs, or "throw".
CreateWebhookStore(options) ==
    IF Truthy(options.mongoUri) THEN "mongo"
    ELSE IF ~Truthy(options.filePath) THEN "throw"
    ELSE "file"

\* bootstrap: createWebhookStore on the configuration. A throw ends the start-up.
Boot ==
    /\ phase = "boot"
    /\ engine' = CreateWebhookStore(cfg)
    /\ phase' = IF engine' = "throw" THEN "failed" ELSE "new"
    /\ UNCHANGED <<logLimit, now, fileVars, collection, calls, ret, histVars, held, reqs,
                   client, sideVars>>

\* An init() that opens a connection although the store has its collection.
MongoInitCallNoGuard ==
    /\ engine = "mongo" /\ phase \in {"new", "ready", "failed"}
    /\ Len(ret) <= MaxCalls
    /\ client' = [client EXCEPT !.opened = @ + 1]
    /\ phase' = "connecting"
    /\ UNCHANGED ret
    /\ UNCHANGED <<engine, logLimit, now, fileVars, collection, calls, histVars, held, reqs,
                   sideVars>>

\* MongoWebhookStore.init() up to its first await: it returns at once when the store
\* has its collection, and else constructs a MongoClient and starts to connect. A call
\* is made when no other init() is running.
MongoInitCall ==
    /\ engine = "mongo" /\ phase \in {"new", "ready", "failed"}
    /\ Len(ret) <= MaxCalls
    /\ IF client.coll
       THEN /\ phase' = "ready"
            /\ ret' = Append(ret, Result("init", "", 200, "none", 0))
            /\ UNCHANGED client
       ELSE /\ client' = [client EXCEPT !.opened = @ + 1]
            /\ phase' = "connecting"
            /\ UNCHANGED ret
    /\ UNCHANGED <<engine, logLimit, now, fileVars, collection, calls, histVars, held, reqs,
                   sideVars>>

\* client.connect() resolves: init() takes the collection and asks for the index.
MongoConnectDone ==
    /\ phase = "connecting"
    /\ client' = [client EXCEPT !.conns = @ + 1, !.coll = TRUE]
    /\ phase' = "indexing"
    /\ UNCHANGED <<engine, logLimit, now, fileVars, collection, calls, ret, histVars, held,
                   reqs, sideVars>>

\* client.connect() rejects: init() rejects.
MongoConnectFail ==
    /\ phase = "connecting"
    /\ phase' = "failed"
    /\ ret' = Append(ret, Result("init", "", 500, "none", 0))
    /\ UNCHANGED <<engine, logLimit, now, fileVars, collection, calls, histVars, held, reqs,
                   client, sideVars>>

\* createIndex resolves: init() resolves.
MongoIndexDone ==
    /\ phase = "indexing"
    /\ client' = [client EXCEPT !.index = TRUE]
    /\ phase' = "ready"
    /\ ret' = Append(ret, Result("init", "", 200, "none", 0))
    /\ UNCHANGED <<engine, logLimit, now, fileVars, collection, calls, histVars, held, reqs,
                   sideVars>>

\* createIndex rejects: init() rejects, the collection stays set.
MongoIndexFail ==
    /\ phase = "indexing"
    /\ phase' = "failed"
    /\ ret' = Append(ret, Result("init", "", 500, "none", 0))
    /\ UNCHANGED <<engine, logLimit, now, fileVars, collection, calls, histVars, held, reqs,
                   client, sideVars>>

(* ------------------------------ restart -------------------------------- *)

Max(x, y) == IF x >= y THEN x ELSE y

\* What a fs.writeFile cut off by the end of the process leaves of the file: the file as
\* it was, an empty or a partial file, or the whole document.
CutOff(file, p, left) ==
    IF left = "asbefore" THEN file
    ELSE IF left = "written" THEN DocFile(p.hooks, p.ver)
    ELSE NoDocFile(left)

\* The process ends and is started again on the same file path or collection, possibly
\* with another WEBHOOK_LOG_LIMIT: a new store is constructed (bootstrap, constructor).
Restart ==
    /\ phase # "new"
    /\ \E l \in LogLimits : logLimit' = l /\ maxLimit' = Max(maxLimit, l)
    /\ phase' = "new"
    /\ state' = EmptyHooks
    /\ writePromise' = "null"
    /\ pendingFlush' = FALSE
    /\ persists' = <<>>
    /\ IF \E i \in 1..Len(persists) : persists[i].phase = "write"
       THEN \E i \in 1..Len(persists), left \in {"asbefore", "empty", "partial", "written"} :
                /\ persists[i].phase = "write"
                /\ disk' = CutOff(disk, persists[i], left)
       ELSE disk' = disk
    /\ calls' = <<>>
    /\ ret' = <<>>
    /\ delivered' = [s \in Slugs |-> <<>>]
    /\ touched' = {}
    /\ client' = Client(0, 0, FALSE, FALSE)
    /\ UNCHANGED <<engine, now, collection, ver, held, reqs, sideVars>>

\* The bridge before any request: cachedApp undefined, no store constructed.
NoBridge == Bridge(0, <<>>, [r \in Requests |-> "idle"], [r \in Requests |-> 0])

(* --------------------------- specifications ----------------------------- *)

Init ==
    /\ engine \in {"file", "mongo"}
    /\ logLimit \in LogLimits
    /\ phase = "new"
    /\ now = 0
    /\ state = EmptyHooks
    /\ disk = NoDocFile("absent")
    /\ writePromise = "null"
    /\ pendingFlush = FALSE
    /\ persists = <<>>
    /\ collection = <<>>
    /\ calls = <<>>
    /\ ret = <<>>
    /\ ver = 0
    /\ delivered = [s \in Slugs |-> <<>>]
    /\ touched = {}
    /\ maxLimit = logLimit
    /\ held = <<>>
    /\ reqs = [r \in Requests |-> NoRequest(r)]
    /\ cfg = Config(IF engine = "mongo" THEN "uri" ELSE "unset", "path")
    /\ client = Client(0, 0, FALSE, FALSE)
    /\ both = Pair(EmptyHooks, <<>>, <<>>, 0)
    /\ slugIn = <<>>
    /\ bridge = NoBridge

\* The store operations called directly: no caller keeps a value and no delivery
\* handler runs.
FileCreate ==
    /\ \E s \in Slugs, d \in Descriptions, id \in Ids : FileCreateHook(s, d, id)
    /\ UNCHANGED clientVars
FileDelete == (\E s \in Slugs : FileDeleteHook(s)) /\ UNCHANGED clientVars
FileHit == (\E s \in Slugs, b \in Bodies : FileRecordHit(s, b)) /\ UNCHANGED clientVars
FileClear == (\E s \in Slugs : FileClearLogs(s)) /\ UNCHANGED clientVars
FlushMkdirDone == (\E i \in 1..Len(persists) : MkdirDone(i)) /\ UNCHANGED clientVars
FlushWriteDone == (\E i \in 1..Len(persists) : WriteDone(i)) /\ UNCHANGED clientVars
FlushMkdirFail == (\E i \in 1..Len(persists) : MkdirFail(i)) /\ UNCHANGED clientVars
FlushWriteFail == (\E i \in 1..Len(persists) : WriteFail(i)) /\ UNCHANGED clientVars

MongoCreate ==
    /\ \E s \in Slugs, d \in Descriptions, id \in Ids : MongoCreateHook(s, d, id)
    /\ UNCHANGED clientVars
MongoDelete == (\E s \in Slugs : MongoDeleteHook(s)) /\ UNCHANGED clientVars
MongoHit == (\E s \in Slugs, b \in Bodies : MongoRecordHit(s, b)) /\ UNCHANGED clientVars
MongoClear == (\E s \in Slugs : MongoClearLogs(s)) /\ UNCHANGED clientVars
MongoExecute == (\E i \in 1..Len(calls) : MongoExec(i)) /\ UNCHANGED clientVars

Next ==
    \/ FileInit
    \/ FileCreate
    \/ FileDelete
    \/ FileHit
    \/ FileClear
    \/ FlushMkdirDone
    \/ FlushWriteDone
    \/ MongoInit
    \/ MongoCreate
    \/ MongoDelete
    \/ MongoHit
    \/ MongoClear
    \/ MongoExecute

Spec == Init /\ [][Next]_vars

\* The store with disk failures: fs.mkdir and fs.writeFile may reject.
NextFail == Next \/ FlushMkdirFail \/ FlushWriteFail

SpecFail == Init /\ [][NextFail]_vars

\* The store across restarts of the process.
NextRestart == Next \/ Restart

SpecRestart == Init /\ [][NextRestart]_vars

\* The file store alone, every disk operation succeeding and ending.
InitFile == Init /\ engine = "file"

NextFile ==
    \/ FileInit
    \/ FileCreate
    \/ FileDelete
    \/ FileHit
    \/ FileClear
    \/ FlushMkdirDone
    \/ FlushWriteDone

SpecLive ==
    /\ InitFile
    /\ [][NextFile]_vars
    /\ WF_vars(FlushMkdirDone)
    /\ WF_vars(FlushWriteDone)

\* The files a file store may find when it is constructed: none, an empty one, one cut
\* short, a JSON value without hooks, or a registry document.
FoundFiles ==
    {NoDocFile(k) : k \in {"absent", "empty", "partial", "nohooks"}}
        \cup {DocFile(Put(EmptyHooks, s, NewHook(id, s, d, 0)), 0) :
                  s \in Slugs, id \in Ids, d \in Descriptions}

\* The file store started on any backing file.
InitFound ==
    /\ engine = "file"
    /\ logLimit \in LogLimits
    /\ phase = "new"
    /\ now = 0
    /\ state = EmptyHooks
    /\ disk \in FoundFiles
    /\ writePromise = "null"
    /\ pendingFlush = FALSE
    /\ persists = <<>>
    /\ collection = <<>>
    /\ calls = <<>>
    /\ ret = <<>>
    /\ ver = 0
    /\ delivered = [s \in Slugs |-> <<>>]
    /\ touched = {}
    /\ maxLimit = logLimit
    /\ held = <<>>
    /\ reqs = [r \in Requests |-> NoRequest(r)]
    /\ cfg = Config("unset", "path")
    /\ client = Client(0, 0, FALSE, FALSE)
    /\ both = Pair(EmptyHooks, <<>>, <<>>, 0)
    /\ slugIn = <<>>
    /\ bridge = NoBridge

SpecFound == InitFound /\ [][NextFile]_vars

\* The file store with disk failures, every disk operation ending: an fs.mkdir or
\* fs.writeFile in flight resolves unless it rejects.
NextRetry == NextFile \/ FlushMkdirFail \/ FlushWriteFail

SpecRetry ==
    /\ InitFile
    /\ [][NextRetry]_vars
    /\ WF_vars(FlushMkdirDone \/ FlushMkdirFail)
    /\ WF_vars(FlushWriteDone \/ FlushWriteFail)

\* The file store used by one caller that keeps what the calls return.
NextCaller ==
    \/ FileInit
    \/ CallerGetHook \/ CallerListHooks \/ CallerCreateHook \/ CallerDeleteHook
    \/ CallerRecordHit \/ CallerClearLogs \/ CallerMutate
    \/ FlushMkdirDone \/ FlushWriteDone

SpecCaller == InitFile /\ [][NextCaller]_vars

\* The server: deliveries go through the handler, next to the management operations
\* (create, reset, delete).
NextHandler ==
    \/ FileInit
    \/ FileCreate
    \/ FileDelete
    \/ FileClear
    \/ FlushMkdirDone
    \/ FlushWriteDone
    \/ MongoInit
    \/ MongoCreate
    \/ MongoDelete
    \/ MongoClear
    \/ MongoExecute
    \/ \E r \in Requests :
           \/ HandlerReceive(r)
           \/ HandlerLookup(r)
           \/ HandlerInsert(r)
           \/ HandlerCreated(r)
           \/ HandlerBody(r)
           \/ HandlerRecord(r)

SpecHandler == Init /\ [][NextHandler]_vars

\* The store with room for more than one entry per hook: the log limit is above the
\* limits of the other specifications.
InitRoomy ==
    /\ engine \in {"file", "mongo"}
    /\ logLimit = MaxLogLimit + 1
    /\ phase = "new"
    /\ now = 0
    /\ state = EmptyHooks
    /\ disk = NoDocFile("absent")
    /\ writePromise = "null"
    /\ pendingFlush = FALSE
    /\ persists = <<>>
    /\ collection = <<>>
    /\ calls = <<>>
    /\ ret = <<>>
    /\ ver = 0
    /\ delivered = [s \in Slugs |-> <<>>]
    /\ touched = {}
    /\ maxLimit = logLimit
    /\ held = <<>>
    /\ reqs = [r \in Requests |-> NoRequest(r)]
    /\ cfg = Config(IF engine = "mongo" THEN "uri" ELSE "unset", "path")
    /\ client = Client(0, 0, FALSE, FALSE)
    /\ both = Pair(EmptyHooks, <<>>, <<>>, 0)
    /\ slugIn = <<>>
    /\ bridge = NoBridge

SpecRoomy == InitRoomy /\ [][Next]_vars

\* The start-up: the engine is selected from the configuration and initialised; the
\* Mongo engine's init() step by step, called again after it settled.
InitBoot ==
    /\ engine = "none"
    /\ logLimit \in LogLimits
    /\ phase = "boot"
    /\ now = 0
    /\ state = EmptyHooks
    /\ disk = NoDocFile("absent")
    /\ writePromise = "null"
    /\ pendingFlush = FALSE
    /\ persists = <<>>
    /\ collection = <<>>
    /\ calls = <<>>
    /\ ret = <<>>
    /\ ver = 0
    /\ delivered = [s \in Slugs |-> <<>>]
    /\ touched = {}
    /\ maxLimit = logLimit
    /\ held = <<>>
    /\ reqs = [r \in Requests |-> NoRequest(r)]
    /\ cfg \in Configs
    /\ client = Client(0, 0, FALSE, FALSE)
    /\ both = Pair(EmptyHooks, <<>>, <<>>, 0)
    /\ slugIn = <<>>
    /\ bridge = NoBridge

NextBoot ==
    \/ Boot
    \/ MongoInitCall
    \/ MongoConnectDone
    \/ MongoConnectFail
    \/ MongoIndexDone
    \/ MongoIndexFail
    \/ FileInit
    \/ FileCreate
    \/ FlushMkdirDone
    \/ FlushWriteDone

SpecBoot == InitBoot /\ [][NextBoot]_vars

(* ------------------------- the serverless bridge ------------------------ *)

\* handler(req, res) up to its first suspension. With cachedApp unset it calls
\* createApp(), which constructs a store with createWebhookStore and suspends on
\* store.init(); with cachedApp set it hands the request to that application.
BridgeHandler(r) ==
    /\ bridge.pc[r] = "idle"
    /\ IF bridge.cachedApp = 0
       THEN /\ Len(bridge.stores) < MaxCalls + 1
            /\ bridge' = Bridge(0, Append(bridge.stores, CreateWebhookStore(cfg)),
                                [bridge.pc EXCEPT ![r] = "creating"],
                                [bridge.app EXCEPT ![r] = Len(bridge.stores) + 1])
       ELSE bridge' = Bridge(bridge.cachedApp, bridge.stores,
                             [bridge.pc EXCEPT ![r] = "served"],
                             [bridge.app EXCEPT ![r] = bridge.cachedApp])
    /\ UNCHANGED <<engine, logLimit, phase, now, fileVars, collection, calls, ret, histVars,
                   held, reqs, client, cfg, both, slugIn>>

\* createApp() resolves for the request that called it: the application it built is
\* assigned to cachedApp and the request is handed to cachedApp.
BridgeCreateAppDone(r) ==
    /\ bridge.pc[r] = "creating"
    /\ bridge' = Bridge(bridge.app[r], bridge.stores,
                        [bridge.pc EXCEPT ![r] = "served"], bridge.app)
    /\ UNCHANGED <<engine, logLimit, phase, now, fileVars, collection, calls, ret, histVars,
                   held, reqs, client, cfg, both, slugIn>>

\* createApp() rejects (store.init() failed): cachedApp is left as it was and the
\* request is answered 500 without an application.
BridgeCreateAppFail(r) ==
    /\ bridge.pc[r] = "creating"
    /\ bridge' = Bridge(bridge.cachedApp, bridge.stores,
                        [bridge.pc EXCEPT ![r] = "failed"],
                        [bridge.app EXCEPT ![r] = 0])
    /\ UNCHANGED <<engine, logLimit, phase, now, fileVars, collection, calls, ret, histVars,
                   held, reqs, client, cfg, both, slugIn>>

\* The response of a request has been sent; the platform sends the process another.
BridgeNextRequest(r) ==
    /\ bridge.pc[r] \in {"served", "failed"}
    /\ bridge' = Bridge(bridge.cachedApp, bridge.stores,
                        [bridge.pc EXCEPT ![r] = "idle"],
                        [bridge.app EXCEPT ![r] = 0])
    /\ UNCHANGED <<engine, logLimit, phase, now, fileVars, collection, calls, ret, histVars,
                   held, reqs, client, cfg, both, slugIn>>

\* A fresh process behind the bridge: createApp always passes a file path, the
\* environment decides the rest.
InitBridge == InitBoot /\ cfg.filePath = "path"

NextBridge ==
    \/ \E r \in Requests : BridgeHandler(r)
    \/ \E r \in Requests : BridgeCreateAppDone(r)
    \/ \E r \in Requests : BridgeCreateAppFail(r)
    \/ \E r \in Requests : BridgeNextRequest(r)

SpecBridge == InitBridge /\ [][NextBridge]_vars

\* A store that starts empty and is used by the delivery handler alone; reading the
\* body of a request may fail.
NextBody ==
    \/ FileInit
    \/ FlushMkdirDone
    \/ FlushWriteDone
    \/ MongoInit
    \/ \E r \in Requests :
           \/ HandlerReceive(r)
           \/ HandlerLookup(r)
           \/ HandlerInsert(r)
           \/ HandlerCreated(r)
           \/ HandlerBody(r)
           \/ HandlerBodyFail(r)
           \/ HandlerRecord(r)

SpecBody == Init /\ [][NextBody]_vars

\* The slugs the router lets through to createHook.
SpecSlug == Init /\ [][RouteSlug]_vars

\* The store in use while one request that is not a POST is answered.
NextMethods == Next \/ HandlerOther("r1")

SpecMethods == Init /\ [][NextMethods]_vars

(* ----------------------------- observations ----------------------------- *)

\* getHook(slug) of the store in use.
GetHook(slug) == IF engine = "file" THEN FileGetHook(slug) ELSE MongoGetHook(slug)

Registered(slug) == GetHook(slug) # <<>>

\* Every hook record the registry holds.
AllHooks ==
    IF engine = "file"
    THEN {state[s] : s \in DOMAIN state}
    ELSE {collection[i] : i \in 1..Len(collection)}

\* The number of records the registry holds for a slug.
SlugCount(slug) ==
    IF engine = "file"
    THEN IF slug \in DOMAIN state THEN 1 ELSE 0
    ELSE Cardinality({i \in 1..Len(collection) : collection[i].slug = slug})

Results == {ret[i] : i \in 1..Len(ret)}

Conflict(slug) == Result("createHook", slug, 409, "none", 0)

NotFound(op, slug) == Result(op, slug, 404, "none", 0)

\* No flush in flight and the pending flag clear.
Idle == writePromise = "null" /\ ~pendingFlush /\ persists = <<>>

\* The window of getStats' hitsLast24h: 24 * 60 * 60 * 1000 ms.
DayMs == 86400000

\* One item of listHooks(): the record without id and logs.
Summary(hook) ==
    [slug |-> hook.slug, description |-> hook.description, metadata |-> hook.metadata,
     createdAt |-> hook.createdAt, lastHit |-> hook.lastHit, hits |-> hook.hits]

\* listHooks() of the file store on the registry hooks: its items (their order is not
\* recorded).
FileListHooks(hooks) == {Summary(h) : h \in hooks}

\* listHooks() of the Mongo store on the documents docs: find with projection {logs: 0},
\* then sanitizeHook on every document (the sort by slug is not recorded).
MongoListHooks(docs) == {SanitizeHook(Project(d, {"logs"})) : d \in docs}

\* listHooks() of the store in use.
ListHooks == IF engine = "file" THEN FileListHooks(AllHooks) ELSE MongoListHooks(AllHooks)

\* The entries listRecentEntries() collects from the records hooks before it sorts and
\* slices them. pos is the entry's place in its hook's logs: it keeps equal entries of
\* one hook apart.
EntriesOf(hooks) ==
    UNION {{[slug |-> h.slug, pos |-> i, timestamp |-> h.logs[i].timestamp,
             body |-> h.logs[i].body, reference |-> h.logs[i].id] : i \in 1..Len(h.logs)}
           : h \in hooks}

ListRecentEntries == EntriesOf(AllHooks)

\* The limit listRecentEntries falls back on, and the ends of the range it clamps to.
DefaultLimit == 20
LimitFloor == 1
LimitCeiling == 100

\* The limits listRecentEntries is called with: an integer <<n>>, or none (<<>>).
Limits == {<<>>} \cup {<<n>> : n \in {0 - 1, 0, 1, 2, LimitCeiling + 1}}

Smaller(a, b) == IF a <= b THEN a ELSE b

\* safeLimit: Math.max(1, Math.min(Number(limit) || 20, 100)). The parameter default
\* puts 20 for a limit not given, and || puts 20 for the falsy number 0.
SafeLimit(limit) ==
    LET given == IF limit = <<>> THEN DefaultLimit ELSE limit[1]
        number == IF given = 0 THEN DefaultLimit ELSE given
    IN  Max(LimitFloor, Smaller(number, LimitCeiling))

\* entries.sort by timestamp descending: an order of the collected entries in which no
\* entry comes before a later one (which of the orders, among entries of one
\* timestamp, depends on the order of collection, which is not recorded).
SortedEntries(hooks) ==
    LET entries == EntriesOf(hooks)
        n == Cardinality(entries)
    IN  CHOOSE seq \in [1..n -> entries] :
            /\ \A i, j \in 1..n : i # j => seq[i] # seq[j]
            /\ \A i, j \in 1..n : i < j => seq[i].timestamp >= seq[j].timestamp

\* listRecentEntries(limit) on the records hooks: entries.slice(0, safeLimit).
ListRecent(hooks, limit) ==
    LET sorted == SortedEntries(hooks)
    IN  SubSeq(sorted, 1, Smaller(Len(sorted), SafeLimit(limit)))

RECURSIVE SumLogs(_)
\* A total that adds up the entries kept instead of the hits.
SumLogs(hooks) ==
    IF hooks = {} THEN 0
    ELSE LET h == CHOOSE x \in hooks : TRUE IN Len(h.logs) + SumLogs(hooks \ {h})

RECURSIVE SumHits(_)
SumHits(hooks) ==
    IF hooks = {} THEN 0
    ELSE LET h == CHOOSE x \in hooks : TRUE IN h.hits + SumHits(hooks \ {h})

\* The latest of a set of times: <<>> (null) when there is none.
Latest(times) == IF times = {} THEN <<>> ELSE <<CHOOSE t \in times : \A u \in times : u <= t>>

\* getStats() on the records hooks, called when the clock reads t.
StatsOf(hooks, t) ==
    [totalWebhooks |-> Cardinality(hooks),
     totalHits |-> SumHits(hooks),
     lastPayloadAt |-> Latest({e.timestamp : e \in EntriesOf(hooks)}),
     lastWebhookCreatedAt |-> Latest({h.createdAt : h \in hooks}),
     hitsLast24h |-> Cardinality({e \in EntriesOf(hooks) : e.timestamp >= t - DayMs})]

\* getStats() of the store in use.
GetStats(t) == StatsOf(AllHooks, t)

(* --------------------- the two engines side by side --------------------- *)

\* createHook's hook literal with the metadata argument: "undefined" takes the default
\* {}, null ("null") and an object ("{k}") are stored as they are.
HookLiteral(id, slug, description, metadata, t) ==
    [NewHook(id, slug, description, t) EXCEPT
        !.metadata = IF metadata = "undefined" THEN "{}" ELSE metadata]

\* insertOne adds the _id it generated to the document.
WithId(hook, oid) ==
    [f \in (DOMAIN hook) \cup {"_id"} |-> IF f = "_id" THEN oid ELSE hook[f]]

\* What a call returned: 200 and a value, or the statusCode of the error it threw.
Outcome(status, value) == [status |-> status, value |-> value]

DocSet(coll) == {coll[i] : i \in 1..Len(coll)}

HookSet(hooks) == {hooks[s] : s \in DOMAIN hooks}

PairCreateHook ==
    /\ both.n < MaxVer
    /\ now' \in Clock
    /\ \E s \in Slugs, d \in Descriptions, id \in Ids, md \in {"undefined", "null", "{k}"} :
          LET hook == HookLiteral(id, s, d, md, now')
              doc == WithId(hook, both.n + 1)
              inserted == InsertOne(both.mongo, doc)
          IN  both' = Pair(IF s \in DOMAIN both.file THEN both.file ELSE Put(both.file, s, hook),
                           inserted,
                           <<IF s \in DOMAIN both.file THEN Outcome(409, "none")
                             ELSE Outcome(200, hook),
                             IF inserted = both.mongo THEN Outcome(409, "none")
                             ELSE Outcome(200, SanitizeHook(doc))>>,
                           both.n + 1)

PairGetHook ==
    /\ UNCHANGED now
    /\ \E s \in Slugs :
          LET i == IndexOfSlug(both.mongo, s)
          IN  both' = [both EXCEPT
                         !.out = <<IF s \in DOMAIN both.file THEN Outcome(200, both.file[s])
                                   ELSE Outcome(200, "null"),
                                   IF i = 0 THEN Outcome(200, "null")
                                   ELSE Outcome(200, SanitizeHook(both.mongo[i]))>>]

PairRecordHit ==
    /\ both.n < MaxVer
    /\ now' \in Clock
    /\ \E s \in Slugs, b \in Bodies :
          LET entry == MakeEntry(now', b)
              i == IndexOfSlug(both.mongo, s)
          IN  both' = Pair(IF s \in DOMAIN both.file
                           THEN [both.file EXCEPT ![s] = FileRecordHitUpdate(@, entry, logLimit)]
                           ELSE both.file,
                           IF i = 0 THEN both.mongo
                           ELSE [both.mongo EXCEPT ![i] = MongoRecordHitUpdate(@, entry, logLimit)],
                           <<IF s \in DOMAIN both.file THEN Outcome(200, entry)
                             ELSE Outcome(404, "none"),
                             IF i = 0 THEN Outcome(404, "none") ELSE Outcome(200, entry)>>,
                           both.n + 1)

PairClearLogs ==
    /\ both.n < MaxVer
    /\ UNCHANGED now
    /\ \E s \in Slugs :
          LET i == IndexOfSlug(both.mongo, s)
              file == IF s \in DOMAIN both.file
                      THEN [both.file EXCEPT ![s] = ClearLogsUpdate(@)] ELSE both.file
              mongo == IF i = 0 THEN both.mongo
                       ELSE [both.mongo EXCEPT ![i] = ClearLogsUpdate(@)]
          IN  both' = Pair(file, mongo,
                           <<IF s \in DOMAIN both.file THEN Outcome(200, file[s])
                             ELSE Outcome(404, "none"),
                             IF i = 0 THEN Outcome(404, "none")
                             ELSE Outcome(200, SanitizeHook(mongo[i]))>>,
                           both.n + 1)

PairDeleteHook ==
    /\ both.n < MaxVer
    /\ UNCHANGED now
    /\ \E s \in Slugs :
          LET i == IndexOfSlug(both.mongo, s)
          IN  both' = Pair(Drop(both.file, s),
                           IF i = 0 THEN both.mongo ELSE RemoveAt(both.mongo, i),
                           <<Outcome(200, IF s \in DOMAIN both.file THEN "true" ELSE "false"),
                             Outcome(200, IF i = 0 THEN "false" ELSE "true")>>,
                           both.n + 1)

PairGetStats ==
    /\ now' \in Clock
    /\ both' = [both EXCEPT
                  !.out = <<Outcome(200, StatsOf(HookSet(both.file), now')),
                            Outcome(200, StatsOf(DocSet(both.mongo), now'))>>]

\* One call, made on both stores with the same arguments.
PairCall ==
    /\ \/ PairCreateHook \/ PairGetHook \/ PairRecordHit
       \/ PairClearLogs \/ PairDeleteHook \/ PairGetStats
    /\ UNCHANGED <<engine, logLimit, phase, fileVars, collection, calls, ret, histVars,
                   held, reqs, client, cfg, slugIn, bridge>>

\* A file store and a Mongo store given the same sequence of calls, each call completed
\* before the next (the engine field is not used).
InitPair == Init /\ engine = "file"

SpecPair == InitPair /\ [][PairCall]_vars

(* -------------------------------- claims -------------------------------- *)

\* C1 as stated: in both engines, in every reachable state, every registered hook has
\* logs.length <= logLimit. (It fails after a restart with a lower logLimit.)
C1_LogsWithinLimit == \A h \in AllHooks : Len(h.logs) <= logLimit

\* C1 as amended: every hook created, hit or reset since the store was constructed has
\* logs.length <= logLimit, and every other hook (loaded by init(), or found in the
\* collection) has logs.length <= the largest logLimit its data was written under.
C1_LogsWithinLimitSinceInit ==
    \A h \in AllHooks :
        Len(h.logs) <= IF h.slug \in touched THEN logLimit ELSE maxLimit

\* A hit after the limit was lowered cut the logs of a hook down to the new limit.
C1_Witness ==
    \E h \in AllHooks :
        /\ h.slug \in touched
        /\ maxLimit > logLimit
        /\ h.hits > logLimit
        /\ Len(h.logs) = logLimit

MongoHitExecuted(s, i) ==
    /\ i \in 1..Len(calls)
    /\ calls[i].op = "recordHit"
    /\ calls[i].slug = s
    /\ MongoExec(i)

\* C3: recordHit calls for one registered slug that are pending together are each
\* applied exactly once, in any order of execution: every one executed while the slug is
\* registered returns normally, adds 1 to hits and puts its entry at the head of logs
\* (logs stays empty when logLimit is 0); hits counts the calls that returned and no
\* entry is lost but by eviction.
C3_ConcurrentHitsApplied ==
    /\ [](\A s \in Slugs :
            Registered(s) =>
                /\ GetHook(s)[1].hits = Len(delivered[s])
                /\ GetHook(s)[1].logs = Take(Reverse(delivered[s]), logLimit))
    /\ [][\A s \in Slugs :
            /\ \A i \in 1..Len(calls) :
                   (MongoHitExecuted(s, i) /\ Registered(s)) =>
                       /\ ret'[1].status = 200
                       /\ GetHook(s)'[1].hits = GetHook(s)[1].hits + 1
                       /\ logLimit >= 1 => Head(GetHook(s)'[1].logs) = calls[i].entry[1]
            /\ \A b \in Bodies :
                   (FileRecordHit(s, b) /\ Registered(s)) =>
                       /\ ret'[1].status = 200
                       /\ GetHook(s)'[1].hits = GetHook(s)[1].hits + 1
                       /\ logLimit >= 1 => Head(GetHook(s)'[1].logs) = MakeEntry(now', b)]_vars

\* Two recordHit calls for one slug were pending together and were executed in the
\* other order than they were sent: both are counted.
C3_Witness ==
    /\ engine = "mongo"
    /\ \E s \in Slugs :
           /\ Registered(s)
           /\ Len(delivered[s]) = 2
           /\ delivered[s][1].timestamp > delivered[s][2].timestamp
           /\ GetHook(s)[1].hits = 2

\* A step in which createHook(s) runs (file store) or its insert is executed (Mongo store).
CreateExecuted(s) ==
    \/ \E d \in Descriptions, id \in Ids : FileCreateHook(s, d, id)
    \/ \E i \in 1..Len(calls) :
           calls[i].op = "createHook" /\ calls[i].slug = s /\ MongoExec(i)

C5_ConflictChangesNothing ==
    [][(\E s \in Slugs : Conflict(s) \in Results') =>
           UNCHANGED <<state, collection, disk, writePromise, pendingFlush, persists>>]_vars

\* A createHook failed with the conflict signal on the file store while a flush was in
\* flight and the slug's hook held deliveries.
C5_Witness ==
    /\ engine = "file"
    /\ writePromise = "pending"
    /\ ~pendingFlush
    /\ \E s \in Slugs : ret = <<Conflict(s)>> /\ state[s].hits > 0

\* A step in which recordHit(s) or clearLogs(s) runs (file store) or is executed
\* (Mongo store).
HitOrClearExecuted(s) ==
    \/ \E b \in Bodies : FileRecordHit(s, b)
    \/ FileClearLogs(s)
    \/ \E i \in 1..Len(calls) :
           calls[i].op \in {"recordHit", "clearLogs"} /\ calls[i].slug = s /\ MongoExec(i)

C7_OneFlushInFlight == Len(persists) <= 1

\* A mutation arrived while a flush was in flight.
C7_Witness ==
    /\ engine = "file" /\ phase = "ready"
    /\ Len(persists) = 1
    /\ pendingFlush
    /\ ver > persists[1].since

\* A step in which a persist() started by schedulePersist settles.
FlushSettled ==
    \E i \in 1..Len(persists) :
        persists[i].tracked /\ (WriteDone(i) \/ WriteFail(i) \/ MkdirFail(i))

\* C8: a mutation that arrives while a flush is in flight sets the pending flag; when
\* that flush settles, resolved or rejected, with the flag set, exactly one further
\* flush is started and the flag is cleared (and none is started with the flag clear);
\* the document a flush writes holds every mutation made before that flush was started.
C8_OneFollowUpFlush ==
    /\ [][(engine = "file" /\ phase = "ready" /\ state' # state /\ writePromise = "pending")
              => pendingFlush']_vars
    /\ [][FlushSettled =>
              IF pendingFlush
              THEN /\ persists' = <<NewPersist(TRUE, ver)>>
                   /\ writePromise' = "pending"
                   /\ ~pendingFlush'
              ELSE Idle']_vars
    /\ [](\A i \in 1..Len(persists) :
              persists[i].phase = "write" => persists[i].ver >= persists[i].since)

\* A flush settled after two or more mutations had arrived during it (the callers it
\* resumes made the first of them at the latest), and one follow-up flush is in flight.
C8_Witness ==
    /\ Len(ret) >= 1
    /\ Len(persists) = 1
    /\ persists[1].tracked
    /\ persists[1].phase = "mkdir"
    /\ ~pendingFlush
    /\ persists[1].since >= ret[1].ver + 2

\* C9: on the file engine with every disk write succeeding, once mutations stop the
\* flush machinery becomes idle, and whenever it is idle (after init()) the on-disk
\* document equals the in-memory registry.
C9_IdleMeansFlushed ==
    /\ []((phase = "ready" /\ Idle) => (disk.kind = "doc" /\ disk.hooks = state))
    /\ (<>[][state' = state]_vars) => <>[]Idle

\* Idle again after mutations of which one arrived during a flush.
C9_Witness ==
    /\ phase = "ready" /\ Idle
    /\ disk.kind = "doc"
    /\ disk.ver >= 2
    /\ disk.hooks = state
    /\ DOMAIN state # {}

\* C10 as stated: when clearLogs, createHook or deleteHook of the file engine resolves,
\* a flush whose document holds that mutation has completed.
C10_ResolvedMeansFlushed ==
    \A r \in Results :
        (engine = "file" /\ r.op \in {"clearLogs", "createHook", "deleteHook"}
            /\ r.status = 200 /\ r.value # "false") =>
                (disk.kind = "doc" /\ disk.ver >= r.ver)

\* A step in which a persist() started by schedulePersist rejects.
FlushFailed ==
    \E i \in 1..Len(persists) : persists[i].tracked /\ (WriteFail(i) \/ MkdirFail(i))

\* C11: on the file engine a failed flush is never surfaced: the callers awaiting it
\* (createHook, deleteHook, clearLogs) resume with their normal result, recordHit has
\* returned already, no result ever carries an error other than 404 and 409, and the
\* registry keeps every mutation and stays ready.
C11_FlushFailureNotSurfaced ==
    /\ [][FlushFailed =>
              /\ ret' = Resolved(calls)
              /\ state' = state
              /\ phase' = "ready"]_vars
    /\ [](engine = "file" => \A r \in Results : r.status \in {200, 404, 409})

\* A write failed and left the file empty or cut short; the callers that awaited it
\* resumed normally and the registry holds their hooks.
C11_Witness ==
    /\ engine = "file" /\ phase = "ready"
    /\ disk.kind \in {"empty", "partial"}
    /\ ret # <<>>
    /\ \A r \in Results : r.status = 200 /\ r.ver >= 1
    /\ DOMAIN state # {}

C13_NoValueSharedWithRegistry == [][CallerMutate => state' = state]_vars

\* C14: on the file engine a new store's init() on the same path yields the registry the
\* last completed flush wrote, whatever happened before the restart: the file changes
\* only to the whole document of a flush, and init() on an existing file loads exactly
\* the registry of that document.
C14_InitRestoresLastFlush ==
    [][/\ disk' # disk =>
             \E i \in 1..Len(persists) :
                 /\ persists[i].phase = "write"
                 /\ disk' = DocFile(persists[i].hooks, persists[i].ver)
       /\ (FileInit /\ disk.kind # "absent") =>
             /\ disk.kind = "doc"
             /\ phase' = "ready"
             /\ state' = disk.hooks]_vars

\* A step in which deleteHook(s) runs (file store) or its deleteOne is executed (Mongo
\* store).
DeleteExecuted(s) ==
    \/ FileDeleteHook(s)
    \/ \E i \in 1..Len(calls) :
           calls[i].op = "deleteHook" /\ calls[i].slug = s /\ MongoExec(i)

\* A record as createHook makes it: no hits, no last hit, no logs.
Fresh(hook) == hook.hits = 0 /\ hook.lastHit = NoTime /\ hook.logs = <<>>

HitExecuted(s) ==
    \/ \E b \in Bodies : FileRecordHit(s, b)
    \/ \E i \in 1..Len(calls) : MongoHitExecuted(s, i)

\* C16: deleteHook(s) removes the hook and its log entries in one step: in no state is
\* an entry of an unregistered slug listed by listRecentEntries or a record of it counted
\* by getStats, the step that executes the delete takes the hook's hits and entries out
\* of both, and a recordHit executed after the delete fails without registering the slug
\* or listing an entry.
C16_DeleteLeavesNoOrphans ==
    /\ [](/\ \A e \in ListRecentEntries : Registered(e.slug)
          /\ GetStats(now).totalWebhooks = Cardinality({s \in Slugs : Registered(s)}))
    /\ [][\A s \in Slugs :
            /\ (DeleteExecuted(s) /\ Registered(s)) =>
                   /\ ~Registered(s)'
                   /\ ListRecentEntries' = {e \in ListRecentEntries : e.slug # s}
                   /\ GetStats(now)'.totalWebhooks = GetStats(now).totalWebhooks - 1
                   /\ GetStats(now)'.totalHits = GetStats(now).totalHits - GetHook(s)[1].hits
            /\ (HitExecuted(s) /\ ~Registered(s)) =>
                   /\ ret' = <<NotFound("recordHit", s)>>
                   /\ ~Registered(s)'
                   /\ ListRecentEntries' = ListRecentEntries
                   /\ \A t \in 0..MaxTime : GetStats(t)' = GetStats(t)]_vars

\* On the file store a recordHit(s) came after deleteHook(s) removed a hook that had a
\* logged entry and while the delete was still awaiting its flush (the file still holds
\* the hook): it failed and s stays unregistered.
C16_Witness ==
    /\ engine = "file"
    /\ \E s \in Slugs :
           /\ ret = <<NotFound("recordHit", s)>>
           /\ \E i \in 1..Len(calls) : calls[i].op = "deleteHook" /\ calls[i].slug = s
           /\ ~Registered(s)
           /\ disk.kind = "doc"
           /\ s \in DOMAIN disk.hooks
           /\ disk.hooks[s].logs # <<>>

\* A step in which clearLogs(s) runs (file store) or is executed (Mongo store).
ClearExecuted(s) ==
    \/ FileClearLogs(s)
    \/ \E i \in 1..Len(calls) :
           calls[i].op = "clearLogs" /\ calls[i].slug = s /\ MongoExec(i)

\* C17: clearLogs is idempotent in both engines: executed on a registered slug it leaves
\* the record with hits 0, lastHit null and no logs and every other field and record as
\* they were, executed again on that record it leaves the registry as it is, and as
\* long as no other mutation was applied the record it returned is the one getHook shows.
C17_ClearLogsIdempotent ==
    /\ [][\A s \in Slugs :
            (ClearExecuted(s) /\ Registered(s)) =>
                /\ Fresh(GetHook(s)'[1])
                /\ GetHook(s)'[1] = ClearLogsUpdate(GetHook(s)[1])
                /\ \A o \in Slugs \ {s} : GetHook(o)' = GetHook(o)
                /\ Fresh(GetHook(s)[1]) => AllHooks' = AllHooks
                /\ NotFound("clearLogs", s) \notin Results']_vars
    /\ [](\A r \in Results :
            (r.op = "clearLogs" /\ r.status = 200 /\ r.ver = ver) =>
                Registered(r.slug) /\ Fresh(GetHook(r.slug)[1]))

\* On the file store two clearLogs calls for one slug, one right after the other, both
\* returned, and the record is the reset one.
C17_Witness ==
    /\ engine = "file"
    /\ \E c1 \in Results, c2 \in Results :
           /\ c1.op = "clearLogs" /\ c1.status = 200
           /\ c2.op = "clearLogs" /\ c2.status = 200
           /\ c1.slug = c2.slug
           /\ c2.ver = c1.ver + 1
           /\ c2.ver = ver
           /\ Registered(c2.slug)
           /\ Fresh(GetHook(c2.slug)[1])

\* C18: for every registered slug hits is the number of entries ever recorded for it:
\* while the slug stays registered hits grows by one with each entry recorded and does
\* not change otherwise.
C18_HitsCountAllRecorded ==
    [][\A s \in Slugs :
         (Registered(s) /\ Registered(s)') =>
             GetHook(s)'[1].hits = GetHook(s)[1].hits + (IF HitExecuted(s) THEN 1 ELSE 0)]_vars

\* C18, amended: in a running store, for every registered slug hits is the number of
\* entries recorded for it since it was created or last reset by clearLogs, evicted
\* entries included: it is never less than the number of entries kept, and clearLogs
\* sets it back to 0.
C18_HitsCountSinceReset ==
    /\ [](\A s \in Slugs :
            Registered(s) =>
                /\ GetHook(s)[1].hits = Len(delivered[s])
                /\ GetHook(s)[1].hits >= Len(GetHook(s)[1].logs))
    /\ [][\A s \in Slugs :
            /\ (ClearExecuted(s) /\ Registered(s)) => GetHook(s)'[1].hits = 0
            /\ (Registered(s) /\ Registered(s)' /\ ~ClearExecuted(s)) =>
                   GetHook(s)'[1].hits =
                       GetHook(s)[1].hits + (IF HitExecuted(s) THEN 1 ELSE 0)]_vars

\* A hook has counted more entries than it keeps: the older one was evicted.
C18_Witness ==
    \E s \in Slugs :
        /\ Registered(s)
        /\ GetHook(s)[1].hits = 2
        /\ Len(GetHook(s)[1].logs) = 1
        /\ Len(delivered[s]) = 2

\* A step in which the handler of request r has its recordHit applied.
HitExecutedBy(r) == HandlerBody(r) \/ HandlerRecord(r)

\* C19: a delivery that finds its slug unregistered and auto-creates it never fails
\* with a conflict, also when another request registered the slug between this
\* handler's getHook and its createHook: no request ends with 409.
C19_AutoCreateNeverConflicts == \A r \in Requests : reqs[r].status # 409

\* C20: every POST with an acceptable body to a valid slug is captured: the step that
\* ends its handler answers stored: true and applies the one recordHit of the request to
\* the slug, whatever other deliveries and management operations are interleaved.
C20_EveryDeliveryCaptured ==
    [][\A r \in Requests :
         (reqs[r].pc # "done" /\ reqs'[r].pc = "done") =>
             /\ reqs'[r].status = 200
             /\ HitExecutedBy(r)
             /\ Registered(reqs[r].slug)'
             /\ Len(delivered'[reqs[r].slug]) = Len(delivered[reqs[r].slug]) + 1]_vars

\* C21: only POST requests trigger storage: a request with another method on a webhook
\* path (/:slug or /hooks/:slug) is answered with 405 and leaves the registry as it is.
C21_OtherMethodsGet405 ==
    [][\A r \in Requests :
         (reqs[r].pc = "idle" /\ reqs'[r].pc = "done" /\ reqs'[r].method \in OtherMethods) =>
             /\ reqs'[r].status = 405
             /\ AllHooks' = AllHooks
             /\ UNCHANGED <<state, collection, disk, persists, calls>>]_vars

\* C22: the engine never receives an invalid identifier: every slug a router path hands
\* to createHook is 2 to 64 characters long, made of a-z 0-9 @ . _ - only, and not a
\* reserved path.
C22_OnlyValidSlugsReachStore ==
    (slugIn # <<>> /\ slugIn.slug # <<>>) =>
        /\ Len(slugIn.slug[1]) >= 2 /\ Len(slugIn.slug[1]) <= 64
        /\ \A i \in 1..Len(slugIn.slug[1]) : IsSlugChar(slugIn.slug[1][i])
        /\ slugIn.slug[1] \notin RESERVED_PATHS

\* A returned value that is a record (not the null of getHook, a boolean or nothing).
IsRecord(value) == value \notin {"none", "null", "true", "false"}

\* C23: the two engines are observationally equivalent: given the same sequence of
\* createHook, getHook, recordHit, clearLogs, deleteHook and getStats calls, each call
\* returns the same on both: the same signal and records with the same fields and
\* values, none of them a backend-internal identifier.
C23_EnginesReturnTheSame ==
    both.out # <<>> =>
        /\ both.out[1] = both.out[2]
        /\ \A i \in 1..2 :
               (both.out[i].status = 200 /\ IsRecord(both.out[i].value)) =>
                   "_id" \notin DOMAIN both.out[i].value

\* The fields of a listHooks summary.
SummaryFields == {"slug", "description", "metadata", "createdAt", "lastHit", "hits"}

\* C24: listHooks returns the same summaries on both engines for the same registry
\* content: one per registered hook, each with exactly the fields slug, description,
\* metadata, createdAt, lastHit and hits, and no logs.
C24_ListHooksSameSummaries ==
    /\ FileListHooks(HookSet(both.file)) = MongoListHooks(DocSet(both.mongo))
    /\ \A item \in FileListHooks(HookSet(both.file)) \cup MongoListHooks(DocSet(both.mongo)) :
           DOMAIN item = SummaryFields
    /\ Cardinality(MongoListHooks(DocSet(both.mongo))) = Len(both.mongo)
    /\ Cardinality(FileListHooks(HookSet(both.file))) = Cardinality(DOMAIN both.file)

\* C25: createWebhookStore returns one engine determined by the configuration alone:
\* the Mongo engine whenever a connection string is given, also with a file path, the
\* file engine when only a file path is given, a thrown error when neither is given.
\* When the Mongo engine is selected and its init() fails, the error reaches the
\* caller, the engine stays the Mongo engine and nothing of a file engine is created
\* or used: no registry in memory, no file, no flush.
C25_EngineFromConfigurationAlone ==
    phase # "boot" =>
        /\ (cfg.mongoUri = "uri") => engine = "mongo"
        /\ (cfg.mongoUri # "uri" /\ cfg.filePath = "path") => engine = "file"
        /\ (cfg.mongoUri # "uri" /\ cfg.filePath # "path") =>
               engine = "throw" /\ phase = "failed"
        /\ engine = "mongo" =>
               /\ state = EmptyHooks /\ disk = NoDocFile("absent")
               /\ persists = <<>> /\ writePromise = "null"
               /\ phase = "failed" => (ret # <<>> /\ ret[Len(ret)].status = 500)
        /\ engine # "mongo" => client = Client(0, 0, FALSE, FALSE)

\* C25: a connection string and a file path were given and the connection failed.
C25_Witness ==
    /\ cfg = Config("uri", "path")
    /\ engine = "mongo" /\ phase = "failed"
    /\ client.opened = 1 /\ client.conns = 0

\* C29: the Mongo engine's init() is idempotent: a call made when the store is
\* connected (it has its collection) opens no connection and leaves client and
\* collection as they are, and init() calls made one after the other leave the store
\* with one connection: never more than one, and one once an init() has resolved.
C29_InitIdempotent ==
    [][/\ (client.coll /\ Len(ret') = Len(ret) + 1 /\ phase \in {"ready", "failed"}) =>
            (client' = client /\ collection' = collection /\ phase' = "ready")
       /\ client'.conns <= 1
       /\ (phase' = "ready" /\ engine' = "mongo") => client'.conns = 1]_vars

\* C29: init() was called again on a connected store and returned.
C29_Witness ==
    /\ engine = "mongo" /\ phase = "ready"
    /\ Len(ret) = MaxCalls + 1
    /\ \A i \in 1..Len(ret) : ret[i].status = 200
    /\ client.opened = 1 /\ client.conns = 1

\* C26: every delivery log entry's id is unique within its hook: no two entries in the
\* logs of one hook share an id, whatever the timing of the deliveries, two deliveries
\* captured within one clock tick included.
C26_EntryIdsUniqueInHook ==
    \A hook \in AllHooks :
        \A i, j \in 1..Len(hook.logs) : i # j => hook.logs[i].id # hook.logs[j].id

\* limit clamped to the range [1, 100], 20 when no limit is given.
Clamp(limit) ==
    IF limit = <<>> THEN DefaultLimit
    ELSE IF limit[1] < LimitFloor THEN LimitFloor
    ELSE IF limit[1] > LimitCeiling THEN LimitCeiling
    ELSE limit[1]

\* C28: listRecentEntries(limit) returns the entries of all hooks' logs, sorted by
\* timestamp descending and cut to L entries, L being limit clamped to [1, 100] and 20
\* when no limit is given: for every integer limit the result has
\* min(entries retained, clamp(limit, 1, 100)) entries.
C28_RecentEntriesClamped ==
    \A limit \in Limits :
        LET result == ListRecent(AllHooks, limit)
        IN  /\ Len(result) = Smaller(Cardinality(EntriesOf(AllHooks)), Clamp(limit))
            /\ \A i \in 1..Len(result) : result[i] \in EntriesOf(AllHooks)
            /\ \A i, j \in 1..Len(result) :
                   i < j => result[i].timestamp >= result[j].timestamp

\* The hits of the hook registered under slug s, 0 when there is none, and the entries
\* its logs retain.
HitsOf(s) == IF Registered(s) THEN GetHook(s)[1].hits ELSE 0

RetainedOf(s) == IF Registered(s) THEN Len(GetHook(s)[1].logs) ELSE 0

\* C27: getStats() reports totalWebhooks equal to the number of registered hooks and
\* totalHits equal to the sum of the hits of the registered hooks, in every reachable
\* state, after resets and deletes too; hitsLast24h counts only entries the logs still
\* retain, so whenever getStats() is called it is at most the number of retained
\* entries (and it is that number while every retained entry is younger than a day).
C27_StatsTotals ==
    /\ GetStats(now).totalWebhooks = Cardinality({s \in Slugs : Registered(s)})
    /\ GetStats(now).totalHits = HitsOf("a") + HitsOf("b")
    /\ \A t \in {now, DayMs, DayMs + 1, DayMs + MaxTime + 1} :
           GetStats(t).hitsLast24h <= RetainedOf("a") + RetainedOf("b")
    /\ GetStats(now).hitsLast24h = RetainedOf("a") + RetainedOf("b")
    /\ GetStats(DayMs + MaxTime + 1).hitsLast24h = 0

\* C27: two hooks are registered and one delivery was counted that no log retains.
C27_Witness ==
    /\ GetStats(now).totalWebhooks = 2
    /\ GetStats(now).totalHits = 1
    /\ GetStats(now).hitsLast24h = 0
    /\ logLimit = 0

\* The persist() calls in flight that schedulePersist started.
TrackedFlushes == {i \in 1..Len(persists) : persists[i].tracked}

\* The state of the flush controller, read from writePromise and pendingFlush.
FlushState ==
    IF writePromise = "null"
    THEN IF pendingFlush THEN "pending-without-flush" ELSE "idle"
    ELSE IF pendingFlush THEN "flushing-with-pending" ELSE "flushing"

\* C30: the file engine's flush controller is only ever idle (no flush in flight, flag
\* clear), flushing (in flight, flag clear) or flushing-with-pending (in flight, flag
\* set): between any two operations or completions the pending flag is never set
\* while no flush is in flight, and no more than one write is queued: the flag stands
\* for one follow-up flush, and that flush starts only when the one in flight settled.
C30_FlushControllerStates ==
    /\ FlushState \in {"idle", "flushing", "flushing-with-pending"}
    /\ pendingFlush => writePromise = "pending"
    /\ Cardinality(TrackedFlushes) = IF writePromise = "pending" THEN 1 ELSE 0
    /\ engine = "mongo" => FlushState = "idle"

\* C30: the controller is flushing with the flag set while the file is being written.
C30_Witness ==
    /\ FlushState = "flushing-with-pending"
    /\ \E i \in TrackedFlushes : persists[i].phase = "write"

\* A step in which fs.mkdir or fs.writeFile rejects.
DiskFailure == FlushMkdirFail \/ FlushWriteFail

\* C31: after a flush fails on the file engine a later flush attempt retries: the
\* controller leaves the failed flush, and once disk writes succeed again (no disk
\* operation rejects any more) the mutations the failed flush did not write reach
\* the disk: from some point on the store is idle with the registry on disk.
C31_FailedFlushIsRetried ==
    \/ []<><<DiskFailure>>_vars
    \/ <>[](phase = "ready" => (Idle /\ disk.kind = "doc" /\ disk.hooks = state))

\* A step in which recordHit counts a delivery on the file engine's hook s.
FileHitCounted(s) ==
    /\ engine = "file"
    /\ s \in DOMAIN state /\ s \in DOMAIN state'
    /\ state'[s].hits = state[s].hits + 1

\* C32: on the file engine recordHit returns without waiting for any flush: in the
\* step that applies it the call has returned and has not joined the callers that
\* wait for a flush, whatever the flush state, and getHook shows its effect (hits,
\* lastHit, the new head of logs); with every disk write succeeding, the on-disk
\* document eventually is one of the registry at or after that delivery: the
\* delivery is a mutation the registry has counted, and again and again the document
\* on disk is the registry with every mutation counted so far.
C32_RecordHitReturnsThenPersists ==
    /\ [][\A s \in Slugs :
             FileHitCounted(s) =>
                 /\ ret' = <<Result("recordHit", s, 200, "none", ver')>>
                 /\ calls' = calls
                 /\ GetHook(s)'[1].hits = GetHook(s)[1].hits + 1
                 /\ GetHook(s)'[1].lastHit = <<now'>>
                 /\ logLimit >= 1 =>
                        \E b \in Bodies : Head(GetHook(s)'[1].logs) = MakeEntry(now', b)]_vars
    /\ []((Len(ret) = 1 /\ ret[1].op = "recordHit" /\ ret[1].status = 200) =>
              (ret[1].ver <= ver /\ ret[1].ver > 0))
    /\ []<>(phase = "new" \/ (disk.kind = "doc" /\ disk.ver = ver /\ disk.hooks = state))

\* C32: recordHit has returned while a flush started before it is still writing and
\* the document on disk has no delivery of that hook.
C32_Witness ==
    /\ Len(ret) = 1 /\ ret[1].op = "recordHit" /\ ret[1].status = 200
    /\ writePromise = "pending" /\ pendingFlush
    /\ Len(persists) = 1 /\ persists[1].phase = "write" /\ persists[1].ver < ret[1].ver
    /\ state[ret[1].slug].hits = 1
    /\ disk.kind = "doc" /\ ret[1].slug \notin DOMAIN disk.hooks

\* What deleteHook(s) returns for an absent slug.
DeletedNothing(s) == Result("deleteHook", s, 200, "false", 0)

IdentityFields == {"id", "slug", "description", "metadata", "createdAt"}

\* The hooks h and g agree on the identity fields.
SameIdentity(h, g) == \A f \in IdentityFields : h[f] = g[f]

\* C34: recordHit(s, e) and clearLogs(s) change only hits, lastHit and logs of hook
\* s: its id, slug, description, metadata and createdAt stay as they are, and so does
\* the record of every other hook (a recordHit or clearLogs of a registered slug is a
\* mutation: it is counted in ver). The identity of a registered hook is kept by every
\* step but a deleteHook of its slug.
C34_HitAndClearKeepIdentity ==
    [][\A s \in Slugs :
         /\ (Registered(s) /\ ver' # ver /\ (HitExecuted(s) \/ ClearExecuted(s))) =>
                /\ Registered(s)'
                /\ SameIdentity(GetHook(s)'[1], GetHook(s)[1])
                /\ DOMAIN GetHook(s)'[1] = DOMAIN GetHook(s)[1]
                /\ \A o \in Slugs \ {s} : GetHook(o)' = GetHook(o)
         /\ (Registered(s) /\ ~(Registered(s)' /\ SameIdentity(GetHook(s)'[1], GetHook(s)[1])))
                => DeleteExecuted(s)]_vars

\* C34: two hooks created at different times are registered, one of them with a
\* delivery and one without.
C34_Witness ==
    /\ \A s \in Slugs : Registered(s)
    /\ \E s, o \in Slugs :
          /\ GetHook(s)[1].hits = 1 /\ GetHook(s)[1].logs # <<>>
          /\ GetHook(o)[1].hits = 0
          /\ GetHook(s)[1].createdAt # GetHook(o)[1].createdAt

\* C35: the file engine's init() never fails because of the content of an existing
\* backing document: with the file absent it starts from the empty registry and writes
\* it, with a registry document it takes the document's hooks, and with a content
\* that is empty, unparseable or without a hooks mapping it takes the empty hooks
\* mapping and is ready, instead of failing.
C35_InitNeverFailsOnContent ==
    [][FileInit =>
          /\ phase' # "failed"
          /\ disk.kind = "absent" =>
                 (state' = EmptyHooks /\ phase' = "init" /\ Len(persists') = 1)
          /\ disk.kind = "doc" => (state' = disk.hooks /\ phase' = "ready")
          /\ disk.kind \in {"empty", "partial", "nohooks"} =>
                 (state' = EmptyHooks /\ phase' = "ready")]_vars

\* lastHit of hook is null until a delivery is counted, and with entries retained it is
\* the timestamp of the head of logs.
LastHitFollowsHead(hook) ==
    /\ (hook.lastHit = NoTime) <=> (hook.hits = 0)
    /\ hook.logs # <<>> => hook.lastHit = <<Head(hook.logs).timestamp>>

C37_LogsLengthIsMinHitsLimit ==
    \A hook \in AllHooks :
        /\ Len(hook.logs) = Smaller(hook.hits, logLimit)
        /\ hook.hits >= Len(hook.logs)
        /\ logLimit >= 1 => ((hook.logs = <<>>) <=> (hook.hits = 0))

\* C37: a hook has counted more deliveries than the log limit lets it retain.
C37_Witness ==
    \E hook \in AllHooks :
        /\ logLimit >= 1
        /\ hook.hits > logLimit
        /\ Len(hook.logs) = logLimit

\* The request r has ended with an error response.
EndedInError(r) == reqs[r].pc = "done" /\ reqs[r].status >= 400

\* C38: a delivery request that ends with an error response (413 for a body over the
\* payload limit, or a failed read of the body) leaves the registry unchanged: no hook
\* is created for its slug and no hook's hits, lastHit or logs change. In a store that
\* started empty and has served delivery requests only, the registry is empty as long
\* as every request made so far ended with an error.
C38_FailedDeliveryChangesNothing ==
    (\A r \in Requests : reqs[r].pc = "idle" \/ EndedInError(r)) => AllHooks = {}

\* The lastHit values of the registered hooks that have one.
LastHits == {h.lastHit[1] : h \in {g \in AllHooks : g.lastHit # NoTime}}

\* C39: getStats().lastPayloadAt is consistent with the hooks' own fields: in every
\* reachable state it is the greatest lastHit over the registered hooks, and it is
\* null exactly when every hook has lastHit null.
C39_LastPayloadIsGreatestLastHit ==
    /\ GetStats(now).lastPayloadAt = Latest(LastHits)
    /\ (GetStats(now).lastPayloadAt = <<>>) <=> (\A h \in AllHooks : h.lastHit = NoTime)

\* The requests of the bridge whose createApp() call has not settled.
Creating == {r \in Requests : bridge.pc[r] = "creating"}

\* C40: the serverless bridge creates the application, and with it the store instance
\* that owns the registry, at most once per process, also when several requests arrive
\* before the first initialisation has finished, and every request is served by that
\* single instance: no two initialisations are ever in progress together, none is in
\* progress once the process holds its application, and a served request was served
\* by the application the process holds.
C40_OneStorePerProcess ==
    /\ Cardinality(Creating) <= 1
    /\ bridge.cachedApp # 0 => Creating = {}
    /\ \A r \in Requests : bridge.pc[r] = "served" => bridge.app[r] = bridge.cachedApp
====
